---- MODULE Spec2Model ----
(***************************************************************************)
(* Model of the agentic Reddit signal engine (backend/engine.py) and of    *)
(* the request gate of its Reddit client (backend/reddit_client.py).       *)
(*                                                                         *)
(* Python dicts are modelled as functions whose domain is the set of keys  *)
(* present, so a missing key is a key outside DOMAIN and d.get(k, default) *)
(* is Get(d, k, default).  A text-generation call raises or returns a      *)
(* message content (none, or a text of tokens), which safe_parse_json      *)
(* turns into a value tagged with its JSON kind ("list", "dict", "str").   *)
(***************************************************************************)
EXTENDS Integers, Sequences, FiniteSets, TLC

\* ---------------------------------------------------------------- config
MAX_ITERATIONS == 3
MIN_SIGNALS_PER_TYPE == 2
\* "Only include threads with relevance_score >= 20" (the analysis prompt)
RELEVANCE_FLOOR == 20
SYNTHESIS_CAP == 30

\* ---------------------------------------------------------------- bounds
\* Longest query list the generator / refiner hands back in the model.
MaxQueries == 2
\* Most queries, over a whole run, for which search returns any thread.
MaxHits == 2
\* Longest signal collection handed to the coverage evaluator on its own.
MaxSignals == 3
\* Longest text, in tokens, handed to safe_parse_json on its own.
MaxTokens == 4
\* Most Reddit fetches (searches and comment fetches) running at once.
MaxTasks == 7
\* Most communities a query names for search_reddit.
MaxSubreddits == 4
\* Most highly similar repositories the GitHub analysis reports.
MaxRepos == 150

\* ---------------------------------------------------------------- dicts
EmptyDict == <<>>

Get(d, k, default) == IF k \in DOMAIN d THEN d[k] ELSE default

\* F applied to the value of v: v is evaluated once, before F is entered
\* (an operator argument is otherwise re-evaluated at each of its uses).
WithValue(F(_), v) == CHOOSE r \in {F(x) : x \in {v}} : TRUE

\* A Python value together with its type, where the code tells types apart
\* (isinstance, an attribute only one type has).
Tagged(kind, val) == [kind |-> kind, val |-> val]

None == Tagged("NoneType", <<>>)

\* range of a sequence
Range(s) == {s[i] : i \in 1..Len(s)}

\* all sequences over S of length at most n
SeqsUpTo(S, n) == UNION {[1..k -> S] : k \in 0..n}

\* ---------------------------------------------------------------- world
\* What Reddit holds: eight threads, found by two query strings whose
\* results overlap in one thread ("t4").
ThreadIds == <<"t1", "t2", "t3", "t4", "t5", "t6", "t7", "t8">>
ThreadScores == <<120, 8, 15, 300, 10, 2, 50, 10>>
ThreadComments == <<40, 12, 3, 5, 5, 0, 4, 30>>
ThreadTitles == <<"T1", "T2", "T3", "T4", "T5", "T6", "T7", "T8">>
ThreadUrls == <<"u1", "u2", "u3", "u4", "u5", "u6", "u7", "u8">>

RawThread(n) ==
    [id |-> ThreadIds[n], title |-> ThreadTitles[n], url |-> ThreadUrls[n],
     subreddit |-> IF n <= 4 THEN "startups" ELSE "SaaS",
     score |-> ThreadScores[n], num_comments |-> ThreadComments[n]]

\* search_reddit(query): the threads the query finds when the upstream answers
SearchReddit(query_str) ==
    IF query_str = "qa" THEN [i \in 1..4 |-> RawThread(i)]
    ELSE IF query_str = "qb" THEN [i \in 1..5 |-> RawThread(i + 3)]
    ELSE <<>>

\* fetch_thread_comments(url, limit=5)
FetchThreadComments(url) == <<"comment">>

\* the per-thread enrichment of search_all_queries
EnrichThread(thread) ==
    IF thread.num_comments >= 5 /\ thread.score >= 10
    THEN [top_comments |-> FetchThreadComments(thread.url)] @@ thread
    ELSE [top_comments |-> <<>>] @@ thread

EnrichThreads(threads) == [i \in 1..Len(threads) |-> EnrichThread(threads[i])]

\* ---------------------------------------------------------------- safe_parse_json
\* A text is a sequence of tokens: a code fence, a code fence followed by a
\* language name, a newline, text that is no JSON, and a complete JSON
\* document.  A JSON value is tagged with its kind; the values of an object
\* are tagged where the code looks at their type.
Fence == [kind |-> "fence"]
FenceLang == [kind |-> "fence_lang"]
Newline == [kind |-> "newline"]
Garbage == [kind |-> "garbage"]
Doc(json) == [kind |-> "doc", json |-> json]

JList(val) == Tagged("list", val)
JDict(val) == Tagged("dict", val)
JStr(val) == Tagged("str", val)
Str(text) == Tagged("str", text)

\* what a function that raised hands to its caller
Raised(exception) == Tagged("raised", exception)

\* faulty variant: the wrapper keys are tried in the opposite order
WRAPPER_KEYS_REVERSED == <<"data", "signals", "threads", "results", "queries">>

WRAPPER_KEYS == <<"queries", "results", "threads", "signals", "data">>

\* str.strip(): leading and trailing whitespace goes
Strip(text) ==
    LET keep == {i \in DOMAIN text : text[i] # Newline}
    IN  IF keep = {} THEN <<>>
        ELSE SubSeq(text, CHOOSE i \in keep : \A j \in keep : i <= j,
                          CHOOSE i \in keep : \A j \in keep : j <= i)

\* raw.startswith("```")
StartsWithFence(text) == text # <<>> /\ text[1] \in {Fence, FenceLang}

\* raw.split("\n", 1)[-1]: what follows the first newline, all of it if there is none
AfterFirstNewline(text) ==
    LET nl == {i \in DOMAIN text : text[i] = Newline}
    IN  IF nl = {} THEN text
        ELSE SubSeq(text, (CHOOSE i \in nl : \A j \in nl : i <= j) + 1, Len(text))

\* raw.endswith("```")
EndsWithFence(text) == text # <<>> /\ text[Len(text)] = Fence

\* json.loads: one document, whitespace around it allowed; anything else is
\* a JSONDecodeError
JsonLoads(text) ==
    LET body == Strip(text)
    IN  IF Len(body) = 1 /\ body[1].kind = "doc" THEN body[1].json
        ELSE Raised("JSONDecodeError")

\* the unwrapping loop: the first wrapper key, in the order of the tuple,
\* that the object holds with a list value
Unwrap(obj) ==
    LET hit == {i \in DOMAIN WRAPPER_KEYS :
                  /\ WRAPPER_KEYS[i] \in DOMAIN obj.val
                  /\ obj.val[WRAPPER_KEYS[i]].kind = "list"}
    IN  IF hit = {} THEN obj
        ELSE obj.val[WRAPPER_KEYS[CHOOSE i \in hit : \A j \in hit : i <= j]]

safe_parse_json(content) ==
    IF content.kind # "str" THEN Raised("AttributeError")
    ELSE LET stripped == Strip(content.val)
             unfenced == IF StartsWithFence(stripped)
                         THEN LET rest == AfterFirstNewline(stripped)
                              IN  IF EndsWithFence(rest)
                                  THEN SubSeq(rest, 1, Len(rest) - 1)
                                  ELSE rest
                         ELSE stripped
             loaded == JsonLoads(unfenced)
         IN  IF loaded.kind = "raised" THEN JList(<<>>)
             ELSE IF loaded.kind = "dict" THEN Unwrap(loaded)
             ELSE loaded

\* ---------------------------------------------------------------- queries
\* The query objects a generator / refiner answer is built from: a full one,
\* one without intent and subreddits, one without a query string.
QueryFull == [query |-> "qa", intent |-> "pain_point", subreddits |-> <<"startups">>]
QueryBare == [query |-> "qb"]
QueryNoText == [intent |-> "demand"]

QueryDicts == {QueryFull, QueryBare, QueryNoText}

\* A list element that is no object: a bare string.
QueryText == JStr("plain text query")

\* The lists a generator / refiner answer may hold: up to MaxQueries query
\* objects, or a list of strings.
QueryLists == SeqsUpTo(QueryDicts, MaxQueries) \cup {<<QueryText>>}

\* isinstance(x, dict), for the element of a parsed list
IsObject(x) == DOMAIN x # {"kind", "val"}

QueryStr(q) == Get(q, "query", "")

\* ---------------------------------------------------------------- stage 1
\* generate_queries after call_openai and safe_parse_json returned `parsed`
generate_queries(parsed) == IF parsed.kind = "list" THEN parsed.val ELSE <<>>

\* ---------------------------------------------------------------- stage 2
\* search_all_queries calls q.get on every element: one that is no object
\* raises AttributeError
SearchRaises(queries) == \E i \in DOMAIN queries : ~IsObject(queries[i])

\* The query strings search_all_queries looks up (it skips an empty one).
SearchedStrings(queries) == {QueryStr(queries[i]) : i \in 1..Len(queries)} \ {""}

\* What one search_reddit call may hand back: nothing, or the threads found.
SearchOutcomes(query_str) == {<<>>, SearchReddit(query_str)}

\* search_all_queries(queries), `found` being what search_reddit returned
\* for each string searched: the dict query_str -> enriched threads.
search_all_queries(queries, found) ==
    [s \in SearchedStrings(queries) |-> EnrichThreads(found[s])]

\* ---------------------------------------------------------------- stage 3
\* thread_map.get(tid, {}) with thread_map = {t["id"]: t for t in threads}
ThreadMapGet(threads, tid) ==
    LET idx == {i \in 1..Len(threads) : threads[i].id = tid}
    IN  IF idx = {} THEN EmptyDict
        ELSE threads[CHOOSE i \in idx : \A j \in idx : j <= i]

\* faulty variant: the entry is spread last, so its keys win
MergeAnalysisModelWins(a, original, query) ==
    a @@ [title |-> Get(original, "title", ""),
          url |-> Get(original, "url", ""),
          subreddit |-> Get(original, "subreddit", ""),
          score |-> Get(original, "score", 0),
          num_comments |-> Get(original, "num_comments", 0),
          source_query |-> query]

\* The merge of one analyzed entry with its original thread: the factual
\* keys are written after **a, so they override whatever the entry carries.
MergeAnalysis(a, original, query) ==
    [title |-> Get(original, "title", ""),
     url |-> Get(original, "url", ""),
     subreddit |-> Get(original, "subreddit", ""),
     score |-> Get(original, "score", 0),
     num_comments |-> Get(original, "num_comments", 0),
     source_query |-> query] @@ a

\* analyze_threads calls a.get on every element of the parsed list: one that
\* is no object raises AttributeError
AnalyzeRaises(parsed) ==
    parsed.kind = "list" /\ \E i \in DOMAIN parsed.val : ~IsObject(parsed.val[i])

\* analyze_threads after call_openai and safe_parse_json returned `parsed`
analyze_threads(query, threads, parsed) ==
    IF threads = <<>> THEN <<>>
    ELSE IF parsed.kind # "list" THEN <<>>
    ELSE [i \in 1..Len(parsed.val) |->
            MergeAnalysis(parsed.val[i],
                          ThreadMapGet(threads, Get(parsed.val[i], "thread_id", "")),
                          query)]

\* ---------------------------------------------------------------- stage 4
SignalTypes == <<"pain_point", "competition", "demand", "skepticism">>

ZeroCounts == [pain_point |-> 0, competition |-> 0, demand |-> 0, skepticism |-> 0]

\* faulty variant: a signal without signal_type is counted as demand
RECURSIVE CountSignalsUntypedAsDemand(_, _, _)
CountSignalsUntypedAsDemand(all_signals, i, counts) ==
    IF i > Len(all_signals) THEN counts
    ELSE LET st == Get(all_signals[i], "signal_type", "demand")
             Rest(c) == CountSignalsUntypedAsDemand(all_signals, i + 1, c)
         IN  WithValue(Rest, IF st \in DOMAIN counts
                             THEN [counts EXCEPT ![st] = @ + 1]
                             ELSE counts)

\* the counting loop of evaluate_coverage
RECURSIVE CountSignals(_, _, _)
CountSignals(all_signals, i, counts) ==
    IF i > Len(all_signals) THEN counts
    ELSE LET st == Get(all_signals[i], "signal_type", "irrelevant")
             Rest(c) == CountSignals(all_signals, i + 1, c)
         IN  WithValue(Rest, IF st \in DOMAIN counts
                             THEN [counts EXCEPT ![st] = @ + 1]
                             ELSE counts)

\* the competitor set of evaluate_coverage
Competitors(all_signals) ==
    UNION {Range(Get(all_signals[i], "competing_products", <<>>)) :
           i \in 1..Len(all_signals)}

\* faulty variant: only a count one short of the minimum is a gap
IsGapJustBelow(count) == count = MIN_SIGNALS_PER_TYPE - 1

\* faulty variant: the minimum itself counts as a gap
IsGapInclusive(count) == count <= MIN_SIGNALS_PER_TYPE

IsGap(count) == count < MIN_SIGNALS_PER_TYPE

\* One gap description "type (count found, need MIN)": the text is built
\* from exactly these three values.
GapText(signal_type, count) ==
    [signal_type |-> signal_type, found |-> count, need |-> MIN_SIGNALS_PER_TYPE]

Gaps(counts) ==
    LET short == SelectSeq(SignalTypes, LAMBDA t : IsGap(counts[t]))
    IN  [i \in 1..Len(short) |-> GapText(short[i], counts[short[i]])]

evaluate_coverage(all_signals) ==
    LET counts == CountSignals(all_signals, 1, ZeroCounts)
        gaps == Gaps(counts)
    IN  [counts |-> counts,
         competitors |-> Competitors(all_signals),
         gaps |-> gaps,
         has_gaps |-> Len(gaps) > 0]

\* faulty variant: the evaluator pops competing_products off each signal
AfterEvaluationConsuming(signals) ==
    [i \in DOMAIN signals |->
        [k \in DOMAIN signals[i] \ {"competing_products"} |-> signals[i][k]]]

\* The collection after evaluate_coverage ran over it: the evaluator only
\* reads its argument (s.get), so the caller finds it as it was.
AfterEvaluation(signals) == signals

\* ---------------------------------------------------------------- stage 5
\* refine_queries after call_openai and safe_parse_json returned `parsed`
refine_queries(parsed) == IF parsed.kind = "list" THEN parsed.val ELSE <<>>

\* ---------------------------------------------------------------- stage 6
RelevanceKey(s) == Get(s, "relevance_score", 0)

\* faulty variant: an ascending sort reversed, which turns the ties round
InsertBeforeTies(sorted, s) ==
    LET pos == Cardinality({i \in 1..Len(sorted) :
                              RelevanceKey(sorted[i]) > RelevanceKey(s)})
    IN  SubSeq(sorted, 1, pos) \o <<s>> \o SubSeq(sorted, pos + 1, Len(sorted))

\* Python's sorted(..., reverse=True) is stable: an element goes behind
\* every element whose key is greater or equal.
InsertByRelevance(sorted, s) ==
    LET pos == Cardinality({i \in 1..Len(sorted) :
                              RelevanceKey(sorted[i]) >= RelevanceKey(s)})
    IN  SubSeq(sorted, 1, pos) \o <<s>> \o SubSeq(sorted, pos + 1, Len(sorted))

RECURSIVE SortLoop(_, _, _)
SortLoop(signals, i, sorted) ==
    IF i > Len(signals) THEN sorted
    ELSE LET Rest(srt) == SortLoop(signals, i + 1, srt)
         IN  WithValue(Rest, InsertByRelevance(sorted, signals[i]))

\* sorted(signals, key=lambda s: s.get("relevance_score", 0), reverse=True)
SortedByRelevance(signals) == SortLoop(signals, 1, <<>>)

\* top_signals of synthesize_report
TopSignals(all_signals) ==
    LET sorted == SortedByRelevance(all_signals)
    IN  SubSeq(sorted, 1, IF Len(sorted) < SYNTHESIS_CAP THEN Len(sorted) ELSE SYNTHESIS_CAP)

\* synthesize_report after call_openai and safe_parse_json returned `parsed`
synthesize_report(parsed) ==
    IF parsed.kind = "dict" THEN parsed.val
    ELSE [report |-> "str(parsed)", scores |-> EmptyDict]

\* ---------------------------------------------------------------- dedup
\* faulty variant: an empty thread_id passes the test
TruthyAlways(tid) == TRUE

\* `if tid`: the thread_id is not empty
Truthy(tid) == tid # ""

\* the deduplication loop of run_reddit_signal_engine
RECURSIVE DedupLoop(_, _, _, _)
DedupLoop(signals, i, seen_ids, unique_signals) ==
    IF i > Len(signals) THEN unique_signals
    ELSE LET tid == Get(signals[i], "thread_id", "")
             Rest(state) == DedupLoop(signals, i + 1, state.seen_ids, state.unique_signals)
         IN  IF Truthy(tid) /\ tid \notin seen_ids
             THEN WithValue(Rest, [seen_ids |-> seen_ids \cup {tid},
                                   unique_signals |-> Append(unique_signals, signals[i])])
             ELSE DedupLoop(signals, i + 1, seen_ids, unique_signals)

\* faulty variant: a dict keyed by thread_id, in which the last occurrence wins
DeduplicateLastWins(signals) ==
    LET tid(i) == Get(signals[i], "thread_id", "")
        keep == {i \in 1..Len(signals) :
                    tid(i) # "" /\ \A j \in (i + 1)..Len(signals) : tid(j) # tid(i)}
    IN  [k \in 1..Cardinality(keep) |->
            signals[CHOOSE i \in keep : Cardinality({j \in keep : j <= i}) = k]]

Deduplicate(signals) == DedupLoop(signals, 1, {}, <<>>)

\* ---------------------------------------------------------------- model answers
\* One analyzed entry as the analysis prompt asks for it.
Signal(thread_id, relevance_score, signal_type, insight) ==
    [thread_id |-> thread_id, relevance_score |-> relevance_score,
     signal_type |-> signal_type, insight |-> insight]

\* The first four threads, one per category.
AnalysisInOrder(threads) ==
    << Signal(threads[1].id, 90, "pain_point", "in order"),
       [competing_products |-> <<"Acme">>]
           @@ Signal(threads[2].id, 50, "competition", "in order"),
       Signal(threads[3].id, 50, "demand", "in order"),
       Signal(threads[4].id, 30, "skepticism", "in order") >>

\* The last four threads, one per category, the categories the other way round.
AnalysisReversed(threads) ==
    LET n == Len(threads)
    IN  << Signal(threads[n - 3].id, 70, "skepticism", "reversed"),
           Signal(threads[n - 2].id, 70, "demand", "reversed"),
           [competing_products |-> <<"Acme", "Bolt">>]
               @@ Signal(threads[n - 1].id, 95, "competition", "reversed"),
           Signal(threads[n].id, 20, "pain_point", "reversed") >>

\* An answer that ignores the prompt's rules: a score under the floor, no
\* score, an empty thread_id, no thread_id.
AnalysisSloppy(threads) ==
    << Signal(threads[1].id, 10, "demand", "low"),
       [thread_id |-> threads[2].id, signal_type |-> "pain_point"],
       Signal("", 60, "competition", "empty id"),
       [relevance_score |-> 80, signal_type |-> "skepticism"] >>

\* An answer with invented content: a thread that was never searched, with
\* its own title and score, a score over 100, a searched thread with facts of
\* the model's own and an unknown type, no type and a negative score.
AnalysisInvented(threads) ==
    << [title |-> "hallucinated", url |-> "http://invented", score |-> 99999]
           @@ Signal("zz", 150, "irrelevant", "invented"),
       [title |-> "hallucinated", url |-> "http://invented", subreddit |-> "r/none",
        score |-> 99999, num_comments |-> 99999, source_query |-> "never asked"]
           @@ Signal(threads[1].id, 40, "opportunity", "unknown type"),
       [thread_id |-> threads[1].id, relevance_score |-> 0 - 5] >>

AnalysisSingle(threads) == << Signal(threads[1].id, 50, "demand", "single") >>

\* An answer that lists thread ids instead of objects.
AnalysisNotObjects(threads) == << JStr(threads[1].id) >>

\* The lists the model may answer an analysis prompt with.
ModelAnalyses(threads) ==
    { <<>>, AnalysisInOrder(threads), AnalysisReversed(threads),
      AnalysisSloppy(threads), AnalysisInvented(threads), AnalysisSingle(threads),
      AnalysisNotObjects(threads) }

\* A JSON object where a list was asked for.
WrongShape == [error |-> "not a list"]

\* The objects the model may answer a synthesis prompt with.
ModelReports ==
    { [report |-> "narrative", scores |-> [demand_score |-> 70]],
      [summary |-> "no report key"] }

\* How a text-generation call may end: it raises, or it returns a message
\* without content, with a JSON list or with a JSON object.
CallOutcomes == {"raise", "none", "list", "dict"}

\* the message content call_openai returns
Content(outcome, list_val, dict_val) ==
    CASE outcome = "none" -> None
      [] outcome = "list" -> Str(<<Doc(JList(list_val))>>)
      [] OTHER -> Str(<<Doc(JDict(dict_val))>>)

\* ---------------------------------------------------------------- state
VARIABLES
    pc,                 \* where run_reddit_signal_engine stands
    iteration,
    queries,
    search_results,
    qi,                 \* index of `for q in queries` in the analysis loop
    all_signals,
    all_queries_used,
    coverage,
    synth_input,        \* top_signals handed to the synthesis prompt
    report_data,
    result,
    accumulated,        \* history: all_signals as it stood before deduplication
    exit,               \* history: which way the loop was left
    round_ends,         \* history: Len(all_signals) at the end of each round
    calls,              \* history: the collaborator calls, in order
    on_status,          \* the progress observer handed to run_reddit_signal_engine
    raw,                \* safe_parse_json: the text it is given
    parsed,             \* safe_parse_json: what it returns
    REDDIT_SEM,         \* reddit_client: the global semaphore, None until first used
    requests,           \* reddit_client: the upstream requests under way
    all_threads,        \* search_reddit: the list it returns
    body,               \* POST /analyze: the request body
    openai_key,         \* POST /analyze: os.getenv("OPENAI_API_KEY")
    engine_run,         \* history: how the engine run of the request ended
    reply               \* POST /analyze: the HTTP response

\* what belongs to safe_parse_json and to the Reddit client
normalizer_vars == <<raw, parsed>>
client_vars == <<REDDIT_SEM, requests, all_threads>>
api_vars == <<body, openai_key, engine_run, reply>>

vars == <<pc, iteration, queries, search_results, qi, all_signals,
          all_queries_used, coverage, synth_input, report_data, result,
          accumulated, exit, round_ends, calls, on_status,
          normalizer_vars, client_vars, api_vars>>

\* One entry of the call history: the collaborator, the iteration it was
\* called in, the query it was called for, whether the call failed, and with
\* which exception.
Call(op, arg, outcome) ==
    [op |-> op, it |-> iteration, arg |-> arg, failed |-> outcome = "raise",
     error |-> IF outcome = "raise" THEN "APIError" ELSE ""]

\* the entry of a call that an exception left; the client's own exception
\* comes first
FailedCall(op, arg, outcome) ==
    [op |-> op, it |-> iteration, arg |-> arg, failed |-> TRUE,
     error |-> IF outcome = "raise" THEN "APIError" ELSE "AttributeError"]

\* faulty variant: the exception is caught and the call treated as an empty answer
CallRaisesSwallowed(outcome) == FALSE

\* call_openai has no handler, and neither have its callers: an exception of
\* the client leaves run_reddit_signal_engine.
CallRaises(outcome) == outcome = "raise"

\* A stage function raises when call_openai does or when safe_parse_json does.
StageRaises(outcome, content) ==
    CallRaises(outcome) \/ safe_parse_json(content).kind = "raised"

\* The observer a caller may hand to run_reddit_signal_engine.
Observer == Tagged("callable", "on_status")

\* How one `await status(stage, detail)` may end.  Without an observer only
\* the log line is written; an observer is awaited, and may return, raise or
\* never complete.
StatusOutcomes ==
    IF on_status = None THEN {"returned"} ELSE {"returned", "raised", "pending"}

\* status() awaits on_status with no handler and no timeout: its exception
\* leaves run_reddit_signal_engine, and while it is pending the run waits.
ObserverEnds(status) ==
    /\ pc' = IF status = "raised" THEN "raised" ELSE "blocked"
    /\ exit' = "observer"

Init ==
    /\ pc = "loop"
    /\ iteration = 0
    /\ queries = <<>>
    /\ search_results = <<>>
    /\ qi = 0
    /\ all_signals = <<>>
    /\ all_queries_used = <<>>
    /\ coverage = evaluate_coverage(<<>>)
    /\ synth_input = <<>>
    /\ report_data = EmptyDict
    /\ result = EmptyDict
    /\ accumulated = <<>>
    /\ exit = "none"
    /\ round_ends = <<>>
    /\ calls = <<>>
    /\ on_status = None
    /\ raw = None
    /\ parsed = None
    /\ REDDIT_SEM = None
    /\ requests = <<>>
    /\ all_threads = <<>>
    /\ body = None
    /\ openai_key = None
    /\ engine_run = "not called"
    /\ reply = None

\* ---------------------------------------------------------------- the loop
\* faulty variant: the bound tested with <=
LoopCondInclusive(i) == i <= MAX_ITERATIONS

\* faulty variant: the loop gives up one round early
LoopCondShort(i) == i < MAX_ITERATIONS - 1

\* while iteration < MAX_ITERATIONS
LoopCond(i) == i < MAX_ITERATIONS

\* faulty variant: every iteration generates
UsesGeneratorAlways(i) == i >= 1

\* if iteration == 1: generate, else: refine
UsesGenerator(i) == i = 1

\* faulty variant: the empty-yield check is missing
NoQueriesUnchecked(qs) == FALSE

\* if not queries: break
NoQueries(qs) == qs = <<>>

\* if not coverage["has_gaps"]: break
NoGaps(cov) == ~cov.has_gaps

\* faulty variant: one category with enough signals ends the loop
BreaksAfterRoundOnAny(cov) ==
    \E i \in DOMAIN SignalTypes : cov.counts[SignalTypes[i]] >= MIN_SIGNALS_PER_TYPE

\* faulty variant: the round never ends the loop, only the next start does
BreaksAfterRoundNever(cov) == FALSE

\* `if not coverage["has_gaps"]: break` at the end of a round
BreaksAfterRound(cov) == NoGaps(cov)

\* The loop head: the bound is tested and the counter advanced.
StartIteration ==
    /\ pc = "loop"
    /\ LoopCond(iteration)
    /\ iteration' = iteration + 1
    /\ \E status \in StatusOutcomes :
         IF status = "returned"
         THEN /\ pc' = IF UsesGenerator(iteration + 1) THEN "generate" ELSE "refine"
              /\ exit' = exit
         ELSE ObserverEnds(status)
    /\ UNCHANGED <<queries, search_results, qi, all_signals, all_queries_used,
                   coverage, synth_input, report_data, result, accumulated,
                   calls, round_ends>>
    /\ UNCHANGED <<on_status, normalizer_vars, client_vars, api_vars>>

\* The loop head when the bound is reached: the while loop ends.
ExitAtCap ==
    /\ pc = "loop"
    /\ ~LoopCond(iteration)
    /\ pc' = "dedup"
    /\ exit' = "cap"
    /\ UNCHANGED <<iteration, queries, search_results, qi, all_signals,
                   all_queries_used, coverage, synth_input, report_data,
                   result, accumulated, calls, round_ends>>
    /\ UNCHANGED <<on_status, normalizer_vars, client_vars, api_vars>>

\* What follows a generator or refiner answer: break on no queries, else search.
AfterQueries(qs) ==
    /\ queries' = qs
    /\ IF NoQueries(qs)
       THEN \E status \in StatusOutcomes :
              IF status = "returned"
              THEN pc' = "dedup" /\ exit' = "no_queries"
              ELSE ObserverEnds(status)
       ELSE pc' = "search" /\ exit' = exit

\* Iteration 1: generate_queries.
Generate ==
    /\ pc = "generate"
    /\ \E status \in StatusOutcomes :
         IF status # "returned"
         THEN ObserverEnds(status) /\ UNCHANGED <<queries, calls>>
         ELSE \E outcome \in CallOutcomes, answer \in QueryLists :
                LET content == Content(outcome, answer, WrongShape)
                IN  IF StageRaises(outcome, content)
                    THEN /\ calls' = Append(calls, FailedCall("generate", "", outcome))
                         /\ pc' = "raised"
                         /\ UNCHANGED <<queries, exit>>
                    ELSE /\ calls' = Append(calls, Call("generate", "", outcome))
                         /\ AfterQueries(generate_queries(safe_parse_json(content)))
    /\ UNCHANGED <<iteration, search_results, qi, all_signals,
                   all_queries_used, coverage, synth_input, report_data,
                   result, accumulated, round_ends>>
    /\ UNCHANGED <<on_status, normalizer_vars, client_vars, api_vars>>

\* Iteration > 1: coverage is evaluated, and unless it has no gaps
\* refine_queries is called.
Refine ==
    /\ pc = "refine"
    /\ \E status \in StatusOutcomes :
         IF status # "returned"
         THEN ObserverEnds(status) /\ UNCHANGED <<coverage, queries, calls>>
         ELSE /\ coverage' = evaluate_coverage(all_signals)
              /\ IF NoGaps(coverage')
                 THEN /\ \E complete \in StatusOutcomes :
                           IF complete = "returned"
                           THEN pc' = "dedup" /\ exit' = "covered_start"
                           ELSE ObserverEnds(complete)
                      /\ UNCHANGED <<queries, calls>>
                 ELSE \E outcome \in CallOutcomes, answer \in QueryLists :
                        LET content == Content(outcome, answer, WrongShape)
                        IN  IF StageRaises(outcome, content)
                            THEN /\ calls' = Append(calls, FailedCall("refine", "", outcome))
                                 /\ pc' = "raised"
                                 /\ UNCHANGED <<queries, exit>>
                            ELSE /\ calls' = Append(calls, Call("refine", "", outcome))
                                 /\ AfterQueries(refine_queries(safe_parse_json(content)))
    /\ UNCHANGED <<iteration, search_results, qi, all_signals,
                   all_queries_used, synth_input, report_data, result,
                   accumulated, round_ends>>
    /\ UNCHANGED <<on_status, normalizer_vars, client_vars, api_vars>>

\* The queries of the round that search found threads for, one per occurrence.
\* faulty variant: a string already in the log is not logged again
LogQueryOnce(log, query_str) ==
    IF query_str \in Range(log) THEN log ELSE Append(log, query_str)

\* all_queries_used.append(query_str)
LogQuery(log, query_str) == Append(log, query_str)

Hits(qs, results) ==
    {i \in 1..Len(qs) : Get(results, QueryStr(qs[i]), <<>>) # <<>>}

\* Step 2: search_all_queries.
Search ==
    /\ pc = "search"
    /\ \E status \in StatusOutcomes :
         IF status # "returned"
         THEN ObserverEnds(status) /\ UNCHANGED <<search_results, calls, qi>>
         ELSE IF SearchRaises(queries)
         THEN /\ calls' = Append(calls, FailedCall("search", "", "list"))
              /\ pc' = "raised"
              /\ UNCHANGED <<search_results, qi, exit>>
         ELSE /\ \E found \in [SearchedStrings(queries) ->
                                UNION {SearchOutcomes(s) : s \in SearchedStrings(queries)}] :
                   /\ \A s \in SearchedStrings(queries) : found[s] \in SearchOutcomes(s)
                   /\ Len(all_queries_used) + Cardinality(Hits(queries, found)) <= MaxHits
                   /\ search_results' = search_all_queries(queries, found)
              /\ calls' = Append(calls, Call("search", "", "list"))
              /\ pc' = "analyze"
              /\ qi' = 1
              /\ exit' = exit
    /\ UNCHANGED <<iteration, queries, all_signals, all_queries_used,
                   coverage, synth_input, report_data, result, accumulated,
                   round_ends>>
    /\ UNCHANGED <<on_status, normalizer_vars, client_vars, api_vars>>

\* Step 3, one turn of `for q in queries`: a query without threads is
\* skipped, any other is logged and its threads analyzed.
AnalyzeQuery ==
    /\ pc = "analyze"
    /\ qi <= Len(queries)
    /\ LET query_str == QueryStr(queries[qi])
           threads == Get(search_results, query_str, <<>>)
       IN  IF threads = <<>>
           THEN /\ qi' = qi + 1
                /\ UNCHANGED <<pc, exit, all_queries_used, all_signals, calls>>
           ELSE /\ all_queries_used' = LogQuery(all_queries_used, query_str)
                /\ \E status \in StatusOutcomes :
                     IF status # "returned"
                     THEN ObserverEnds(status) /\ UNCHANGED <<qi, all_signals, calls>>
                     ELSE \E outcome \in CallOutcomes, answer \in ModelAnalyses(threads) :
                            LET content == Content(outcome, answer, WrongShape)
                            IN  IF \/ StageRaises(outcome, content)
                                   \/ AnalyzeRaises(safe_parse_json(content))
                                THEN /\ calls' = Append(calls,
                                                     FailedCall("analyze", query_str, outcome))
                                     /\ pc' = "raised"
                                     /\ UNCHANGED <<qi, all_signals, exit>>
                                ELSE /\ calls' = Append(calls,
                                                     Call("analyze", query_str, outcome))
                                     /\ all_signals' = all_signals \o analyze_threads(
                                            query_str, threads, safe_parse_json(content))
                                     /\ qi' = qi + 1
                                     /\ UNCHANGED <<pc, exit>>
    /\ UNCHANGED <<iteration, queries, search_results, coverage, synth_input,
                   report_data, result, accumulated, round_ends>>
    /\ UNCHANGED <<on_status, normalizer_vars, client_vars, api_vars>>

\* Step 4: evaluate coverage; without gaps the loop is left.
EvaluateRound ==
    /\ pc = "analyze"
    /\ qi > Len(queries)
    /\ coverage' = evaluate_coverage(all_signals)
    /\ \E status \in StatusOutcomes :
         IF status # "returned" THEN ObserverEnds(status)
         ELSE IF BreaksAfterRound(coverage')
         THEN pc' = "dedup" /\ exit' = "covered"
         ELSE pc' = "loop" /\ exit' = exit
    /\ round_ends' = Append(round_ends, Len(all_signals))
    \* queries, search_results and the loop index belong to one round: nothing
    \* reads them once its coverage is evaluated, and the model drops them here
    /\ queries' = <<>>
    /\ search_results' = <<>>
    /\ qi' = 0
    /\ UNCHANGED <<iteration, all_signals, all_queries_used, synth_input,
                   report_data, result, accumulated, calls>>
    /\ UNCHANGED <<on_status, normalizer_vars, client_vars, api_vars>>

\* After the loop: deduplicate by thread_id, then synthesize_report.
Synthesize ==
    /\ pc = "dedup"
    /\ accumulated' = all_signals
    /\ all_signals' = Deduplicate(all_signals)
    /\ \E status \in StatusOutcomes :
         IF status # "returned"
         THEN ObserverEnds(status) /\ UNCHANGED <<synth_input, report_data, calls>>
         ELSE /\ synth_input' = TopSignals(all_signals')
              /\ exit' = exit
              /\ \E outcome \in CallOutcomes, answer \in ModelReports :
                   LET content == Content(outcome, <<>>, answer)
                   IN  IF StageRaises(outcome, content)
                       THEN /\ calls' = Append(calls, FailedCall("synthesize", "", outcome))
                            /\ pc' = "raised"
                            /\ UNCHANGED report_data
                       ELSE /\ calls' = Append(calls, Call("synthesize", "", outcome))
                            /\ report_data' = synthesize_report(safe_parse_json(content))
                            /\ pc' = "return"
    /\ UNCHANGED <<iteration, queries, search_results, qi, all_queries_used,
                   coverage, result, round_ends>>
    /\ UNCHANGED <<on_status, normalizer_vars, client_vars, api_vars>>

\* faulty variant: the coverage of the last round is reported instead of being
\* evaluated again on the deduplicated signals
EngineResultLoopCoverage(signals, report, it, queries_used) ==
    [report |-> Get(report, "report", ""),
     scores |-> Get(report, "scores", EmptyDict),
     threads |-> SortedByRelevance(signals),
     iterations |-> it,
     queries_used |-> queries_used,
     coverage |-> coverage]

\* faulty variant: iterations is the number of rounds that were evaluated
EngineResultRoundsOnly(signals, report, it, queries_used) ==
    [report |-> Get(report, "report", ""),
     scores |-> Get(report, "scores", EmptyDict),
     threads |-> SortedByRelevance(signals),
     iterations |-> Len(round_ends),
     queries_used |-> queries_used,
     coverage |-> evaluate_coverage(signals)]

\* The dict run_reddit_signal_engine returns (elapsed_seconds left out).
EngineResult(signals, report, it, queries_used) ==
    [report |-> Get(report, "report", ""),
     scores |-> Get(report, "scores", EmptyDict),
     threads |-> SortedByRelevance(signals),
     iterations |-> it,
     queries_used |-> queries_used,
     coverage |-> evaluate_coverage(signals)]

\* The final coverage is computed and the result returned.
Return ==
    /\ pc = "return"
    /\ \E status \in StatusOutcomes :
         IF status # "returned"
         THEN ObserverEnds(status) /\ UNCHANGED result
         ELSE /\ result' = EngineResult(all_signals, report_data, iteration,
                                        all_queries_used)
              /\ pc' = "done"
              /\ exit' = exit
    /\ UNCHANGED <<iteration, queries, search_results, qi, all_signals,
                   all_queries_used, coverage, synth_input, report_data,
                   accumulated, calls, round_ends>>
    /\ UNCHANGED <<on_status, normalizer_vars, client_vars, api_vars>>

Next ==
    \/ StartIteration
    \/ ExitAtCap
    \/ Generate
    \/ Refine
    \/ Search
    \/ AnalyzeQuery
    \/ EvaluateRound
    \/ Synthesize
    \/ Return

Spec == Init /\ [][Next]_vars

\* The run of a caller that may hand over a progress observer.
ObservedInit ==
    \E observer \in {None, Observer} :
        /\ pc = "loop"
        /\ iteration = 0
        /\ queries = <<>>
        /\ search_results = <<>>
        /\ qi = 0
        /\ all_signals = <<>>
        /\ all_queries_used = <<>>
        /\ coverage = evaluate_coverage(<<>>)
        /\ synth_input = <<>>
        /\ report_data = EmptyDict
        /\ result = EmptyDict
        /\ accumulated = <<>>
        /\ exit = "none"
        /\ round_ends = <<>>
        /\ calls = <<>>
        /\ on_status = observer
        /\ raw = None
        /\ parsed = None
        /\ REDDIT_SEM = None
        /\ requests = <<>>
        /\ all_threads = <<>>
        /\ body = None
        /\ openai_key = None
        /\ engine_run = "not called"
        /\ reply = None

ObservedSpec == ObservedInit /\ [][Next]_vars

\* ---------------------------------------------------------------- the evaluator alone
\* evaluate_coverage applied to collections of its caller's choice: the caller
\* appends a signal and evaluates, then evaluates the same collection again.
CoverageSignals ==
    { [thread_id |-> "a", signal_type |-> "pain_point"],
      [thread_id |-> "b", signal_type |-> "competition",
       competing_products |-> <<"Acme", "Bolt">>],
      [thread_id |-> "c", signal_type |-> "demand"],
      [thread_id |-> "d", signal_type |-> "skepticism"],
      [thread_id |-> "e", signal_type |-> "demand", competing_products |-> <<"Acme">>],
      [thread_id |-> "f", signal_type |-> "irrelevant", competing_products |-> <<"Cord">>],
      [thread_id |-> "g", signal_type |-> "opportunity"],
      [thread_id |-> "h"] }

CoverageInit ==
    /\ pc = "reevaluated"
    /\ all_signals = <<>>
    /\ coverage = evaluate_coverage(<<>>)
    /\ iteration = 0
    /\ queries = <<>>
    /\ search_results = <<>>
    /\ qi = 0
    /\ all_queries_used = <<>>
    /\ synth_input = <<>>
    /\ report_data = EmptyDict
    /\ result = EmptyDict
    /\ accumulated = <<>>
    /\ exit = "none"
    /\ round_ends = <<>>
    /\ calls = <<>>
    /\ on_status = None
    /\ raw = None
    /\ parsed = None
    /\ REDDIT_SEM = None
    /\ requests = <<>>
    /\ all_threads = <<>>
    /\ body = None
    /\ openai_key = None
    /\ engine_run = "not called"
    /\ reply = None

\* all_signals.extend(...) followed by evaluate_coverage(all_signals)
EvaluateExtended ==
    /\ pc = "reevaluated"
    /\ Len(all_signals) < MaxSignals
    /\ \E s \in CoverageSignals :
         LET extended == Append(all_signals, s)
         IN  /\ coverage' = evaluate_coverage(extended)
             /\ all_signals' = AfterEvaluation(extended)
    /\ pc' = "evaluated"
    /\ UNCHANGED <<iteration, queries, search_results, qi, all_queries_used,
                   synth_input, report_data, result, accumulated, exit,
                   round_ends, calls, on_status, normalizer_vars, client_vars, api_vars>>

\* evaluate_coverage(all_signals) once more, on the collection as it stands
EvaluateAgain ==
    /\ pc = "evaluated"
    /\ coverage' = evaluate_coverage(all_signals)
    /\ all_signals' = AfterEvaluation(all_signals)
    /\ pc' = "reevaluated"
    /\ UNCHANGED <<iteration, queries, search_results, qi, all_queries_used,
                   synth_input, report_data, result, accumulated, exit,
                   round_ends, calls, on_status, normalizer_vars, client_vars, api_vars>>

CoverageNext ==
    \/ EvaluateExtended
    \/ EvaluateAgain

CoverageSpec == CoverageInit /\ [][CoverageNext]_vars

\* ---------------------------------------------------------------- the normalizer alone
\* safe_parse_json applied to what call_openai may return: no content, or a
\* text of at most MaxTokens tokens.
Documents ==
    { JList(<<1, 2, 3>>),
      JDict([queries |-> JList(<<1, 2, 3>>)]),
      JDict([data |-> JList(<<4>>), queries |-> JList(<<1, 2, 3>>), note |-> "two"]),
      JDict([results |-> JStr("none"), signals |-> JList(<<7>>)]),
      JDict([threads |-> JStr("none")]),
      JDict([report |-> "narrative"]),
      JStr("hello") }

Tokens == {Fence, FenceLang, Newline, Garbage} \cup {Doc(d) : d \in Documents}

Contents == {None} \cup {Str(text) : text \in SeqsUpTo(Tokens, MaxTokens)}

\* raw = await call_openai(...): the message content has come back
NormalizerInit ==
    /\ pc = "received"
    /\ raw \in Contents
    /\ parsed = None
    /\ iteration = 0
    /\ queries = <<>>
    /\ search_results = <<>>
    /\ qi = 0
    /\ all_signals = <<>>
    /\ all_queries_used = <<>>
    /\ coverage = evaluate_coverage(<<>>)
    /\ synth_input = <<>>
    /\ report_data = EmptyDict
    /\ result = EmptyDict
    /\ accumulated = <<>>
    /\ exit = "none"
    /\ round_ends = <<>>
    /\ calls = <<>>
    /\ on_status = None
    /\ REDDIT_SEM = None
    /\ requests = <<>>
    /\ all_threads = <<>>
    /\ body = None
    /\ openai_key = None
    /\ engine_run = "not called"
    /\ reply = None

\* parsed = await safe_parse_json(raw)
Normalize ==
    /\ pc = "received"
    /\ parsed' = safe_parse_json(raw)
    /\ pc' = "normalized"
    /\ UNCHANGED <<raw, iteration, queries, search_results, qi, all_signals,
                   all_queries_used, coverage, synth_input, report_data, result,
                   accumulated, exit, round_ends, calls, on_status, client_vars, api_vars>>

NormalizerNext == Normalize

NormalizerSpec == NormalizerInit /\ [][NormalizerNext]_vars

\* ================================================================ claims
Categories == {"pain_point", "demand", "competition", "skepticism"}

Last(s) == s[Len(s)]

CallsOf(op) == {i \in DOMAIN calls : calls[i].op = op}

\* the signals of a collection that carry the given signal_type
OfType(signals, t) ==
    {i \in DOMAIN signals :
        "signal_type" \in DOMAIN signals[i] /\ signals[i].signal_type = t}

\* the entries of a collection that carry the given thread_id
WithId(signals, tid) ==
    {i \in DOMAIN signals :
        "thread_id" \in DOMAIN signals[i] /\ signals[i].thread_id = tid}

Finished == pc \in {"done", "raised"}

\* ---------------------------------------------------------------- the gate alone
\* reddit_client: up to MaxTasks coroutines of one event loop, each a search
\* request (_fetch_one) or a comment fetch (fetch_thread_comments), all going
\* through the one module-level semaphore.

\* asyncio.Semaphore(5)
GATE_SIZE == 5

Semaphore(value) == Tagged("Semaphore", value)

\* faulty variant: the comment fetch issues its GET outside the gate
GatedKindsSearchOnly == {"search"}

\* The fetches whose GET is issued inside `async with _sem()`.
GatedKinds == {"search", "comments"}

\* A coroutine that was called and has not reached its `async with` yet.
Task(kind) == [kind |-> kind, at |-> "called", permit |-> FALSE]

\* n search requests followed by comment fetches (the coroutines of one kind
\* are interchangeable)
TasksOf(n) == [i \in 1..MaxTasks |-> Task(IF i <= n THEN "search" ELSE "comments")]

\* _sem(): the semaphore, created on first use
sem == IF REDDIT_SEM = None THEN Semaphore(GATE_SIZE) ELSE REDDIT_SEM

\* a GET of the coroutine is awaiting its response
InFlight(task) == task.at \in {"get", "retry"}

\* the status codes a response may carry
StatusCodes == {200, 429, 500}

GateInit ==
    /\ pc = "fetching"
    /\ iteration = 0
    /\ queries = <<>>
    /\ search_results = <<>>
    /\ qi = 0
    /\ all_signals = <<>>
    /\ all_queries_used = <<>>
    /\ coverage = evaluate_coverage(<<>>)
    /\ synth_input = <<>>
    /\ report_data = EmptyDict
    /\ result = EmptyDict
    /\ accumulated = <<>>
    /\ exit = "none"
    /\ round_ends = <<>>
    /\ calls = <<>>
    /\ on_status = None
    /\ raw = None
    /\ parsed = None
    /\ REDDIT_SEM = None
    /\ requests \in {TasksOf(n) : n \in 0..MaxTasks}
    /\ all_threads = <<>>
    /\ body = None
    /\ openai_key = None
    /\ engine_run = "not called"
    /\ reply = None

\* `async with _sem():` entered and the first GET issued.  acquire() returns
\* only while the semaphore's value is positive; nothing is awaited between
\* it and the GET but the opening of the comment fetch's own client.
Acquire(i) ==
    /\ requests[i].at = "called"
    /\ IF requests[i].kind \in GatedKinds
       THEN /\ sem.val > 0
            /\ REDDIT_SEM' = Semaphore(sem.val - 1)
            /\ requests' = [requests EXCEPT ![i].at = "get", ![i].permit = TRUE]
       ELSE /\ REDDIT_SEM' = REDDIT_SEM
            /\ requests' = [requests EXCEPT ![i].at = "get"]

\* leaving the `async with` block: release()
Release(i) ==
    IF requests[i].permit
    THEN REDDIT_SEM' = Semaphore(sem.val + 1)
    ELSE REDDIT_SEM' = REDDIT_SEM

\* The first GET ends, with a response or with an exception.  A search
\* request answered 429 sleeps for Retry-After, still inside the block; every
\* other outcome returns and leaves the block.
Respond(i) ==
    /\ requests[i].at = "get"
    /\ \E raised \in BOOLEAN, status_code \in StatusCodes :
         IF requests[i].kind = "search" /\ ~raised /\ status_code = 429
         THEN /\ requests' = [requests EXCEPT ![i].at = "sleep"]
              /\ REDDIT_SEM' = REDDIT_SEM
         ELSE /\ requests' = [requests EXCEPT ![i].at = "done", ![i].permit = FALSE]
              /\ Release(i)

\* asyncio.sleep(retry_after) is over: the second GET is issued
Retry(i) ==
    /\ requests[i].at = "sleep"
    /\ requests' = [requests EXCEPT ![i].at = "retry"]
    /\ REDDIT_SEM' = REDDIT_SEM

\* the second GET ends, whatever its response, and the block is left
RespondRetry(i) ==
    /\ requests[i].at = "retry"
    /\ requests' = [requests EXCEPT ![i].at = "done", ![i].permit = FALSE]
    /\ Release(i)

GateNext ==
    /\ \E i \in DOMAIN requests :
         \/ Acquire(i)
         \/ Respond(i)
         \/ Retry(i)
         \/ RespondRetry(i)
    /\ UNCHANGED <<pc, iteration, queries, search_results, qi, all_signals,
                   all_queries_used, coverage, synth_input, report_data, result,
                   accumulated, exit, round_ends, calls, on_status,
                   normalizer_vars, all_threads, api_vars>>

GateSpec == GateInit /\ [][GateNext]_vars

\* ---------------------------------------------------------------- search_reddit alone
\* One call of search_reddit(query, subreddits): a sub-request per community
\* (at most three) and one for the unscoped search, gathered, each answered
\* by the upstream in any of the ways it can answer.

\* subreddits[:3]
SUBREDDIT_CAP == 3

\* asyncio.sleep's delay when the response carries no Retry-After
DEFAULT_RETRY_AFTER == 3

\* A community name as a query gives it: with the "r/" prefix or without.
Subreddit(prefix, name) == [prefix |-> prefix, name |-> name]

Subreddits ==
    << Subreddit("r/", "startups"), Subreddit("", "SaaS"),
       Subreddit("r/", "smallbusiness"), Subreddit("r/", "recruiting"),
       Subreddit("", "remotework") >>

\* the community lists a query may name
SubredditLists == {SubSeq(Subreddits, 1, n) : n \in 0..MaxSubreddits}

\* search_targets: (url, source) pairs; sub.replace("r/", "") drops the prefix
SearchTargets(subreddits) ==
    IF subreddits # <<>>
    THEN LET capped == SubSeq(subreddits, 1,
                              IF Len(subreddits) < SUBREDDIT_CAP
                              THEN Len(subreddits) ELSE SUBREDDIT_CAP)
         IN  [i \in DOMAIN capped |->
                 [url |-> <<"r", capped[i].name, "search.json">>, source |-> capped[i]]]
             \o << [url |-> <<"search.json">>, source |-> "all"] >>
    ELSE << [url |-> <<"search.json">>, source |-> "all"] >>

\* the query searched in this section
SearchedQuery == "qa"

\* One child of a listing, as Reddit sends it.
Post(id, title, community) ==
    [data |-> [id |-> id, title |-> title, subreddit_name_prefixed |-> community,
               score |-> 12, num_comments |-> 7, permalink |-> <<"comments", id>>]]

\* A child without id, and a child without data.
PostWithoutId == [data |-> [title |-> "no id", score |-> 1]]
PostWithoutData == [kind |-> "more"]

\* The children a listing holds, by target and by attempt: every target finds
\* the thread "t1", and a retried request finds a thread of its own.
Children(n, attempt) ==
    IF attempt = 1
    THEN << Post("t1", "T1", "r/startups"), PostWithoutId,
            Post(ThreadIds[n + 1], ThreadTitles[n + 1], "r/SaaS") >>
    ELSE << PostWithoutData, Post(ThreadIds[n + 4], ThreadTitles[n + 4], "r/SaaS"),
            Post("t1", "T1", "r/startups") >>

\* What `await client.get(url, params=params)` may give: a response, or an
\* exception of the client.
Response(status_code, headers, children) ==
    [raised |-> "", status_code |-> status_code, headers |-> headers,
     children |-> children]

ClientRaises(exception) ==
    [raised |-> exception, status_code |-> 0, headers |-> EmptyDict, children |-> <<>>]

RetryAfterHeaders ==
    { EmptyDict, "Retry-After" :> "2", "Retry-After" :> "Wed, 21 Oct 2015 07:28:00 GMT" }

GetOutcomes(n, attempt) ==
    {Response(200, EmptyDict, Children(n, attempt)), Response(500, EmptyDict, <<>>),
     ClientRaises("TimeoutException"), ClientRaises("ConnectError")}
    \cup {Response(429, headers, <<>>) : headers \in RetryAfterHeaders}

\* int(text) of a header value: decimal digits give the number, anything else
\* raises ValueError
Digits == ("0" :> 0) @@ ("2" :> 2) @@ ("3" :> 3)

ParseInt(text) ==
    IF text \in DOMAIN Digits THEN Tagged("int", Digits[text]) ELSE Raised("ValueError")

\* int(response.headers.get("Retry-After", 3))
RetryAfter(headers) ==
    IF "Retry-After" \in DOMAIN headers
    THEN ParseInt(headers["Retry-After"])
    ELSE Tagged("int", DEFAULT_RETRY_AFTER)

\* the thread dicts _fetch_one builds from the children that carry an id
\* (selftext, created_utc and upvote_ratio are left out)
HasId(p) == Get(Get(p, "data", EmptyDict), "id", "") # ""

RECURSIVE ThreadsOf(_, _)
ThreadsOf(posts, query) ==
    IF posts = <<>> THEN <<>>
    ELSE LET p == Head(posts)
         IN  (IF HasId(p)
              THEN << [id |-> Get(p.data, "id", ""),
                       title |-> Get(p.data, "title", ""),
                       subreddit |-> Get(p.data, "subreddit_name_prefixed", ""),
                       score |-> Get(p.data, "score", 0),
                       num_comments |-> Get(p.data, "num_comments", 0),
                       url |-> <<"https://reddit.com">> \o Get(p.data, "permalink", <<>>),
                       source_query |-> query] >>
              ELSE <<>>) \o ThreadsOf(Tail(posts), query)

\* A sub-request that was handed to asyncio.gather.
SubRequest(n) ==
    [kind |-> "search", n |-> n, at |-> "called", permit |-> FALSE,
     statuses |-> <<>>, slept |-> <<>>, threads |-> <<>>]

\* _fetch_one returns
Returns(task, threads) == [task EXCEPT !.at = "done", !.permit = FALSE, !.threads = threads]

\* faulty variant: the exception leaves _fetch_one
ExceptionPropagates(task, exception) == [task EXCEPT !.at = "raised", !.permit = FALSE]

\* except httpx.TimeoutException / except Exception: return []
ExceptionCaught(task, exception) == Returns(task, <<>>)

\* _fetch_one once the retry's GET has ended
AfterRetry(task, response) ==
    IF response.raised # "" THEN ExceptionCaught(task, response.raised)
    ELSE IF response.status_code # 200 THEN Returns(task, <<>>)
    ELSE Returns(task, ThreadsOf(response.children, SearchedQuery))

\* _fetch_one once the first GET has ended
AfterFirst(task, response) ==
    IF response.raised # "" THEN ExceptionCaught(task, response.raised)
    ELSE IF response.status_code = 429
    THEN LET retry_after == RetryAfter(response.headers)
         IN  IF retry_after.kind = "raised"
             THEN ExceptionCaught(task, retry_after.val)
             ELSE [task EXCEPT !.at = "sleep", !.slept = Append(@, retry_after.val)]
    ELSE IF response.status_code # 200 THEN Returns(task, <<>>)
    ELSE Returns(task, ThreadsOf(response.children, SearchedQuery))

\* the status code received (0 when the client raised) is kept as history
Received(task, response) ==
    [task EXCEPT !.statuses = Append(@, response.status_code)]

\* the deduplication loop of search_reddit over the gathered batches
RECURSIVE MergeBatches(_, _, _)
MergeBatches(flat, seen, merged) ==
    IF flat = <<>> THEN merged
    ELSE IF Head(flat).id \notin seen
    THEN MergeBatches(Tail(flat), seen \cup {Head(flat).id}, Append(merged, Head(flat)))
    ELSE MergeBatches(Tail(flat), seen, merged)

RECURSIVE Flatten(_)
Flatten(batches) ==
    IF batches = <<>> THEN <<>> ELSE Head(batches) \o Flatten(Tail(batches))

SearchInit ==
    /\ pc = "gathering"
    /\ iteration = 0
    /\ queries = <<>>
    /\ search_results = <<>>
    /\ qi = 0
    /\ all_signals = <<>>
    /\ all_queries_used = <<>>
    /\ coverage = evaluate_coverage(<<>>)
    /\ synth_input = <<>>
    /\ report_data = EmptyDict
    /\ result = EmptyDict
    /\ accumulated = <<>>
    /\ exit = "none"
    /\ round_ends = <<>>
    /\ calls = <<>>
    /\ on_status = None
    /\ raw = None
    /\ parsed = None
    /\ REDDIT_SEM = None
    /\ \E subreddits \in SubredditLists :
         requests = [n \in DOMAIN SearchTargets(subreddits) |-> SubRequest(n)]
    /\ all_threads = <<>>
    /\ body = None
    /\ openai_key = None
    /\ engine_run = "not called"
    /\ reply = None

\* `async with _sem():` entered and the first GET issued
FetchAcquire(i) ==
    /\ pc = "gathering"
    /\ requests[i].at = "called"
    /\ sem.val > 0
    /\ REDDIT_SEM' = Semaphore(sem.val - 1)
    /\ requests' = [requests EXCEPT ![i].at = "get", ![i].permit = TRUE]

\* the first GET ends
FetchRespond(i) ==
    /\ requests[i].at = "get"
    /\ \E response \in GetOutcomes(requests[i].n, 1) :
         /\ requests' = [requests EXCEPT ![i] = AfterFirst(Received(@, response), response)]
         /\ IF requests'[i].permit THEN REDDIT_SEM' = REDDIT_SEM ELSE Release(i)

\* asyncio.sleep(retry_after) is over: the second GET is issued
FetchRetry(i) ==
    /\ requests[i].at = "sleep"
    /\ requests' = [requests EXCEPT ![i].at = "retry"]
    /\ REDDIT_SEM' = REDDIT_SEM

\* the second GET ends
FetchRetryRespond(i) ==
    /\ requests[i].at = "retry"
    /\ \E response \in GetOutcomes(requests[i].n, 2) :
         /\ requests' = [requests EXCEPT ![i] = AfterRetry(Received(@, response), response)]
         /\ IF requests'[i].permit THEN REDDIT_SEM' = REDDIT_SEM ELSE Release(i)

FetchOne ==
    /\ \E i \in DOMAIN requests :
         \/ FetchAcquire(i)
         \/ FetchRespond(i)
         \/ FetchRetry(i)
         \/ FetchRetryRespond(i)
    /\ UNCHANGED <<pc, all_threads>>

\* asyncio.gather is over: it raises what a sub-request raised, and otherwise
\* the batches are merged in target order, a thread id once
Gather ==
    /\ pc = "gathering"
    /\ \A i \in DOMAIN requests : requests[i].at \in {"done", "raised"}
    /\ IF \E i \in DOMAIN requests : requests[i].at = "raised"
       THEN pc' = "raised" /\ all_threads' = all_threads
       ELSE /\ all_threads' = MergeBatches(
                   Flatten([i \in DOMAIN requests |-> requests[i].threads]), {}, <<>>)
            /\ pc' = "returned"
    /\ UNCHANGED <<REDDIT_SEM, requests>>

SearchNext ==
    /\ FetchOne \/ Gather
    /\ UNCHANGED <<iteration, queries, search_results, qi, all_signals,
                   all_queries_used, coverage, synth_input, report_data, result,
                   accumulated, exit, round_ends, calls, on_status,
                   normalizer_vars, api_vars>>

SearchSpec == SearchInit /\ [][SearchNext]_vars

\* ---------------------------------------------------------------- POST /analyze
\* The caller layer: one request to POST /analyze, with its three sources
\* (GitHub, web search, the Reddit signal engine) answering in any of the
\* ways they can.  Scores are kept in tenths and risks in hundredths; idea,
\* keywords, query and the repository list, which are passed through, are
\* left out.

\* num / den rounded to the nearest integer, a tie to the even one: round()
RoundDiv(num, den) ==
    LET q == num \div den
        r == num % den
    IN  IF 2 * r < den THEN q
        ELSE IF 2 * r > den THEN q + 1
        ELSE IF q % 2 = 0 THEN q ELSE q + 1

Min(a, b) == IF a < b THEN a ELSE b
Max(a, b) == IF a > b THEN a ELSE b

\* min(high_sim_count / 25.0, 1.0), in hundredths
compute_competition_risk(high_sim_count) == Min((high_sim_count * 100) \div 25, 100)

\* filter_score_repos(...) of what search_github returned, or its exception
GithubOutcomes ==
    {Raised("HTTPError")}
    \cup {Tagged("dict", [high_sim_count |-> n, filtered_count |-> n * share,
                          total_count |-> 1000]) :
            n \in 0..MaxRepos, share \in {1, 2}}

\* websearch_idea(..., max_companies=6): the companies found, or its exception
WebsearchOutcomes ==
    {Raised("WebSearchError")}
    \cup {Tagged("dict", [companies |-> [i \in 1..n |-> "company"], deep_dives |-> <<>>]) :
            n \in {0, 4, 6}}

\* run_reddit_signal_engine(...): a result, or its exception
EngineOutcomes ==
    {Raised("RuntimeError")}
    \cup {Tagged("dict", EngineResult(<<>>, report, 1, <<>>)) : report \in ModelReports}
    \cup {Tagged("dict", EngineResult(<<>>,
               [report |-> "narrative",
                scores |-> [demand_score |-> 80, pain_validation |-> 60,
                            competition_risk |-> 40]], 2, <<"qa">>))}

\* reddit_data when the engine was not run, or raised
NoRedditData == [report |-> "", scores |-> EmptyDict, threads |-> <<>>]

\* GITHUB_WEIGHT, WEBSEARCH_WEIGHT, REDDIT_WEIGHT, in hundredths
Weights(deep_mode) ==
    IF deep_mode THEN [github |-> 30, websearch |-> 35, reddit |-> 35]
    ELSE [github |-> 45, websearch |-> 55, reddit |-> 0]

\* the score a source did not give
DEFAULT_SCORE == 50

\* the engine is awaited in deep mode, when the key is set
EngineAwaited == body.deep_mode /\ openai_key # None

\* an exception that leaves the handler: the framework answers 500
InternalServerError == [status_code |-> 500, content |-> [detail |-> "Internal Server Error"]]

\* the body of analyze after the GitHub analysis
AnalyzeContent(github, websearch, reddit_data) ==
    LET github_competition_risk == compute_competition_risk(github.high_sim_count)
        caught == websearch.kind = "raised"
        websearch_data == IF caught THEN [companies |-> <<>>, deep_dives |-> <<>>]
                          ELSE websearch.val
        num_companies == Len(Get(websearch_data, "companies", <<>>))
        websearch_competition_risk ==
            IF caught THEN 0 ELSE Min((num_companies * 100) \div 10, 100)
        reddit_scores == Get(reddit_data, "scores", EmptyDict)
        weights == Weights(body.deep_mode)
        github_score == github_competition_risk
        websearch_score == websearch_competition_risk
        reddit_competition == Get(reddit_scores, "competition_risk", DEFAULT_SCORE)
        \* in hundredths of a point
        combined_competition_risk ==
            github_score * weights.github + websearch_score * weights.websearch
                + reddit_competition * weights.reddit
        demand_score == Get(reddit_scores, "demand_score", DEFAULT_SCORE)
        pain_validation == Get(reddit_scores, "pain_validation", DEFAULT_SCORE)
        \* in ten-thousandths of a point
        overall_failure_probability ==
            combined_competition_risk * 40 + (100 - demand_score) * 3500
                + (100 - pain_validation) * 2500
    IN  [scores |->
            [competition_risk |-> RoundDiv(combined_competition_risk, 10),
             demand_score |-> 10 * demand_score,
             pain_validation |-> 10 * pain_validation,
             overall_failure_probability |-> RoundDiv(overall_failure_probability, 1000),
             breakdown |-> [github_competition |-> 10 * github_score,
                            websearch_competition |-> 10 * websearch_score,
                            reddit_competition |-> 10 * reddit_competition]],
         github |->
            [total_count |-> github.total_count,
             filtered_count |-> github.filtered_count,
             high_sim_count |-> github.high_sim_count,
             competition_risk |-> github_competition_risk,
             relevance_score |-> RoundDiv(github.high_sim_count * 1000,
                                          Max(github.filtered_count, 1))],
         websearch |->
            [companies |-> Get(websearch_data, "companies", <<>>),
             deep_dives |-> Get(websearch_data, "deep_dives", <<>>),
             num_companies_found |-> num_companies],
         reddit |->
            [report |-> Get(reddit_data, "report", ""),
             threads |-> Get(reddit_data, "threads", <<>>),
             iterations |-> Get(reddit_data, "iterations", 0),
             coverage |-> Get(reddit_data, "coverage", EmptyDict)],
         weights |-> weights]

\* analyze(body), given how its sources answer: what search_github raises
\* leaves the handler, what the engine raises is caught and logged
analyze(github, websearch, engine) ==
    IF github.kind = "raised" THEN InternalServerError
    ELSE [status_code |-> 200,
          content |-> AnalyzeContent(github.val, websearch,
                         IF EngineAwaited /\ engine.kind # "raised"
                         THEN engine.val ELSE NoRedditData)]

AnalyzeInit ==
    /\ pc = "request"
    /\ iteration = 0
    /\ queries = <<>>
    /\ search_results = <<>>
    /\ qi = 0
    /\ all_signals = <<>>
    /\ all_queries_used = <<>>
    /\ coverage = evaluate_coverage(<<>>)
    /\ synth_input = <<>>
    /\ report_data = EmptyDict
    /\ result = EmptyDict
    /\ accumulated = <<>>
    /\ exit = "none"
    /\ round_ends = <<>>
    /\ calls = <<>>
    /\ on_status = None
    /\ raw = None
    /\ parsed = None
    /\ REDDIT_SEM = None
    /\ requests = <<>>
    /\ all_threads = <<>>
    /\ body \in {[deep_mode |-> deep_mode] : deep_mode \in BOOLEAN}
    /\ openai_key \in {None, Str("sk-key")}
    /\ engine_run = "not called"
    /\ reply = None

\* POST /analyze is handled
Analyze ==
    /\ pc = "request"
    /\ \E github \in GithubOutcomes, websearch \in WebsearchOutcomes, engine \in EngineOutcomes :
         /\ reply' = analyze(github, websearch, engine)
         /\ engine_run' = IF github.kind = "raised" \/ ~EngineAwaited THEN "not called"
                           ELSE IF engine.kind = "raised" THEN "raised"
                           ELSE "returned"
    /\ pc' = "responded"
    /\ UNCHANGED <<body, openai_key>>
    /\ UNCHANGED <<iteration, queries, search_results, qi, all_signals,
                   all_queries_used, coverage, synth_input, report_data, result,
                   accumulated, exit, round_ends, calls, on_status,
                   normalizer_vars, client_vars>>

AnalyzeNext == Analyze

AnalyzeSpec == AnalyzeInit /\ [][AnalyzeNext]_vars

\* ---------------------------------------------------------------- C1
\* The stages one iteration can pass through: queries, search, one analysis
\* per query and the turn that ends the analysis loop, the loop head.
StagesPerIteration == MaxQueries + 5

\* How far the run has come: the iterations started, then the stage within
\* the iteration, then the stages after the loop.
Progress ==
    CASE pc \in {"generate", "refine"} -> iteration * StagesPerIteration
      [] pc = "search" -> iteration * StagesPerIteration + 1
      [] pc = "analyze" -> iteration * StagesPerIteration + 2 + qi
      [] pc = "loop" -> iteration * StagesPerIteration + StagesPerIteration - 1
      [] pc = "dedup" -> (MAX_ITERATIONS + 1) * StagesPerIteration
      [] pc = "return" -> (MAX_ITERATIONS + 1) * StagesPerIteration + 1
      [] pc = "done" -> (MAX_ITERATIONS + 1) * StagesPerIteration + 2
      [] pc = "raised" -> (MAX_ITERATIONS + 1) * StagesPerIteration + 3

\* C1: whatever the generator, refiner, search and analyzer hand back, the
\* loop is left after at most MAX_ITERATIONS rounds (the counter never passes
\* MAX_ITERATIONS, and no more than MAX_ITERATIONS generator/refiner calls and
\* searches are made); the run terminates (every step advances a bounded
\* measure, and the run never halts before its end); and unless a
\* text-generation call raised it ends with the signals deduplicated, one
\* synthesis call made last, and a result returned.
C1_LoopBoundedThenSynthesis ==
    /\ [](iteration \in 0..MAX_ITERATIONS)
    /\ [](Cardinality(CallsOf("search")) <= MAX_ITERATIONS)
    /\ [](Cardinality(CallsOf("generate") \cup CallsOf("refine")) <= MAX_ITERATIONS)
    /\ [][Progress' > Progress]_vars
    /\ [](Progress <= (MAX_ITERATIONS + 1) * StagesPerIteration + 3)
    /\ [](Finished \/ ENABLED Next)
    /\ [](Finished /\ (\A i \in DOMAIN calls : ~calls[i].failed) => pc = "done")
    /\ [](pc = "done" =>
            /\ CallsOf("synthesize") = {Len(calls)}
            /\ all_signals = Deduplicate(accumulated)
            /\ DOMAIN result =
                 {"report", "scores", "threads", "iterations", "queries_used", "coverage"})

\* A run that used up the iteration budget with gaps left, and returned.
C1_Witness ==
    /\ pc = "done"
    /\ exit = "cap"
    /\ result.iterations = MAX_ITERATIONS
    /\ coverage.has_gaps
    /\ Len(accumulated) > 0

\* ---------------------------------------------------------------- C2
\* every one of the four categories has at least 2 signals
Covered(signals) ==
    \A t \in Categories : Cardinality(OfType(signals, t)) >= 2

\* the analysis loop of the round is through; coverage is evaluated next
RoundEnd == pc = "analyze" /\ qi > Len(queries)

\* the call history grew by at most one call, a synthesis
OnlySynthesisCalled ==
    \/ calls' = calls
    \/ /\ Len(calls') = Len(calls) + 1
       /\ SubSeq(calls', 1, Len(calls)) = calls
       /\ Last(calls').op = "synthesize"

\* the loop has been left; deduplication and synthesis, or the return, is next
AfterLoop == pc \in {"dedup", "return"}

\* C2: when at the end of iteration k every category has at least 2
\* accumulated signals, the next step leaves the loop for deduplication and
\* synthesis: no iteration is started, no refiner and no search are called
\* from there on, and the result reports iterations = k.
C2_StopsWhenCovered ==
    /\ [][RoundEnd /\ Covered(all_signals) =>
            pc' = "dedup" /\ iteration' = iteration /\ calls' = calls]_vars
    /\ [][AfterLoop =>
            (iteration' = iteration
             /\ pc' \in {"return", "done", "raised"}
             /\ OnlySynthesisCalled)]_vars
    /\ [](pc = "done" => result.iterations = iteration)
    /\ [](pc = "done" /\ Covered(accumulated) =>
            /\ Len(round_ends) = result.iterations
            /\ \A r \in 1..(Len(round_ends) - 1) :
                 ~Covered(SubSeq(accumulated, 1, round_ends[r])))

\* Round 1 already yields 2 signals of each category: the result reports 1.
C2_Witness ==
    /\ pc = "done"
    /\ exit = "covered"
    /\ Covered(accumulated)
    /\ result.iterations = 1
    /\ CallsOf("refine") = {}

\* ---------------------------------------------------------------- C3
\* the generator or refiner answered last, and with no queries
EmptyYieldAt(n) ==
    /\ n \in DOMAIN calls
    /\ calls[n].op \in {"generate", "refine"}
    /\ ~calls[n].failed
    /\ queries = <<>>

\* The last query-producing call yielded nothing (and at most the synthesis
\* was called since).
EmptyYield ==
    \/ EmptyYieldAt(Len(calls))
    \/ Len(calls) > 1 /\ Last(calls).op = "synthesize" /\ EmptyYieldAt(Len(calls) - 1)

\* the signals of category t that round r added
RoundYield(r, t) ==
    {i \in OfType(accumulated, t) :
        (IF r = 1 THEN 0 ELSE round_ends[r - 1]) < i /\ i <= round_ends[r]}

ThreeIterationsWithGaps ==
    /\ result.iterations = MAX_ITERATIONS
    /\ Len(round_ends) = MAX_ITERATIONS
    /\ Cardinality(CallsOf("search")) = MAX_ITERATIONS
    /\ Last(calls).op = "synthesize"
    /\ result.coverage.has_gaps

\* C3 as stated: if every round yields at most 1 signal per category and the
\* generator and refiner keep returning queries, exactly 3 iterations are
\* performed and the final coverage has gaps.
C3_AsStated ==
    (/\ pc = "done"
     /\ ~EmptyYield
     /\ \A r \in DOMAIN round_ends, t \in Categories :
            Cardinality(RoundYield(r, t)) <= 1)
    => ThreeIterationsWithGaps

\* C3 amended: if the rounds together yield at most 1 signal per category
\* and the generator and refiner keep returning queries, exactly 3 iterations
\* are performed, then synthesis, and the final coverage has gaps.
C3_ExhaustsBudget ==
    (/\ pc = "done"
     /\ ~EmptyYield
     /\ \A t \in Categories : Cardinality(OfType(accumulated, t)) <= 1)
    => ThreeIterationsWithGaps

\* Three rounds were run, signals were found, no category got past 1.
C3_Witness ==
    /\ pc = "done"
    /\ ~EmptyYield
    /\ \A t \in Categories : Cardinality(OfType(accumulated, t)) = 1
    /\ Len(round_ends) = MAX_ITERATIONS
    /\ result.coverage.has_gaps

\* ---------------------------------------------------------------- C4
\* the step calls the synthesizer, and goes on to the return unless the call
\* raises
SynthesisStep ==
    /\ Len(calls') = Len(calls) + 1
    /\ Last(calls').op = "synthesize"
    /\ pc' = IF Last(calls').failed THEN "raised" ELSE "return"

\* C4: when the generator or the refiner returns no queries, that iteration
\* searches and analyzes nothing, no further iteration starts, and the steps
\* that follow are the synthesizer call and (unless that call raises) the
\* return of a result, neither of which can fail to come; on iteration 1 the
\* synthesizer gets an empty signal set and the result's thread list is empty.
C4_EmptyYieldExit ==
    /\ [](EmptyYield => pc \in {"dedup", "return", "done", "raised"})
    /\ [](EmptyYield =>
            \A i \in CallsOf("search") \cup CallsOf("analyze") : calls[i].it < iteration)
    /\ [][EmptyYield => iteration' = iteration /\ OnlySynthesisCalled]_vars
    /\ [][EmptyYield /\ pc = "dedup" => SynthesisStep]_vars
    /\ [][EmptyYield /\ pc = "return" => pc' = "done"]_vars
    /\ [](EmptyYield => Finished \/ ENABLED Next)
    /\ [](EmptyYield /\ pc = "done" =>
            /\ Last(calls).op = "synthesize"
            /\ result.iterations = iteration)
    /\ [](EmptyYield /\ iteration = 1 =>
            /\ all_signals = <<>>
            /\ pc \in {"return", "done"} => synth_input = <<>>
            /\ pc = "done" => result.threads = <<>>)

\* The generator returned no queries and a result was returned all the same.
C4_Witness ==
    /\ pc = "done"
    /\ EmptyYield
    /\ iteration = 1
    /\ calls[1].op = "generate"
    /\ result.threads = <<>>

\* ---------------------------------------------------------------- C5
\* C5: a text-generation call that raises is the last call of the run (it is
\* not retried and nothing is called after it), the run ends raised, and no
\* result is returned.
C5_FatalErrorPropagates ==
    /\ \A i \in DOMAIN calls :
         calls[i].failed => i = Len(calls) /\ pc = "raised" /\ DOMAIN result = {}
    /\ pc = "raised" => Last(calls).failed /\ DOMAIN result = {}
    /\ pc = "done" => \A i \in DOMAIN calls : ~calls[i].failed

\* The very first call raised.
C5_Witness ==
    /\ pc = "raised"
    /\ Len(calls) = 1
    /\ calls[1].op = "generate"
    /\ calls[1].failed

\* ---------------------------------------------------------------- C6
QueryCalls == CallsOf("generate") \cup CallsOf("refine")

\* C6: the generator is called exactly once, as the first call of the run
\* and in iteration 1; the refiner only in iterations > 1; and an iteration
\* makes at most one of these calls, so none makes both.
C6_GenerateOnceThenRefine ==
    /\ \A i \in CallsOf("generate") : i = 1 /\ calls[i].it = 1
    /\ (iteration >= 1 /\ pc # "generate") => Cardinality(CallsOf("generate")) = 1
    /\ \A i \in CallsOf("refine") : calls[i].it > 1
    /\ \A i, j \in QueryCalls : i # j => calls[i].it # calls[j].it

\* A run of three iterations: one generation, then two refinements.
C6_Witness ==
    /\ pc = "done"
    /\ Cardinality(CallsOf("generate")) = 1
    /\ {calls[i].it : i \in CallsOf("refine")} = {2, 3}

\* ---------------------------------------------------------------- C7
\* the thread_id values carried by the entries of a collection
PresentIds(signals) ==
    {signals[i].thread_id : i \in {j \in DOMAIN signals : "thread_id" \in DOMAIN signals[j]}}

FirstWithId(signals, tid) ==
    CHOOSE i \in WithId(signals, tid) : \A j \in WithId(signals, tid) : i <= j

\* The deduplicated all_signals holds, for each of the given ids, exactly one
\* entry, the first accumulated one, holds nothing else, and is in first-seen
\* order.
KeepsFirstOfEach(ids) ==
    /\ \A tid \in ids :
         /\ Cardinality(WithId(all_signals, tid)) = 1
         /\ \A k \in WithId(all_signals, tid) :
              all_signals[k] = accumulated[FirstWithId(accumulated, tid)]
    /\ Len(all_signals) = Cardinality(ids)
    /\ \A k \in DOMAIN all_signals : "thread_id" \in DOMAIN all_signals[k]
    /\ \A j, k \in DOMAIN all_signals :
         j < k => FirstWithId(accumulated, all_signals[j].thread_id)
                    < FirstWithId(accumulated, all_signals[k].thread_id)

C8_FinalCoverageOnDeduplicated ==
    pc = "done" =>
        /\ DOMAIN result.coverage.counts = Categories
        /\ \A t \in Categories :
             result.coverage.counts[t] = Cardinality(OfType(result.threads, t))

\* A thread was accumulated twice under one category and is counted once.
C8_Witness ==
    /\ pc = "done"
    /\ \E t \in Categories :
         /\ Cardinality(OfType(accumulated, t)) > result.coverage.counts[t]
         /\ \E i, j \in OfType(accumulated, t) :
              /\ i < j
              /\ Get(accumulated[i], "thread_id", "") # ""
              /\ Get(accumulated[i], "thread_id", "") = Get(accumulated[j], "thread_id", "")

\* ---------------------------------------------------------------- C9
\* relevance_score, a missing one counting as 0
ScoreOf(s) == IF "relevance_score" \in DOMAIN s THEN s.relevance_score ELSE 0

\* where the thread stands among the deduplicated signals
SeenAt(tid) == CHOOSE k \in DOMAIN all_signals : all_signals[k].thread_id = tid

\* C9: the returned thread list holds the deduplicated signals ordered by
\* relevance_score non-increasing (missing = 0), whatever their accumulation
\* order, and entries of equal score keep their first-seen order.
C9_SortedByRelevance ==
    pc = "done" =>
        LET th == result.threads
        IN  /\ Len(th) = Len(all_signals)
            /\ \A k \in DOMAIN all_signals : \E i \in DOMAIN th : th[i] = all_signals[k]
            /\ \A i, j \in DOMAIN th : i < j => ScoreOf(th[i]) >= ScoreOf(th[j])
            /\ \A i, j \in DOMAIN th :
                 i < j /\ ScoreOf(th[i]) = ScoreOf(th[j])
                    => SeenAt(th[i].thread_id) < SeenAt(th[j].thread_id)

\* The sort changed the order, two entries tie, and one has no score.
C9_Witness ==
    /\ pc = "done"
    /\ result.threads # all_signals
    /\ \E i, j \in DOMAIN result.threads :
         i < j /\ ScoreOf(result.threads[i]) = ScoreOf(result.threads[j])
    /\ \E i \in DOMAIN result.threads : "relevance_score" \notin DOMAIN result.threads[i]

\* ---------------------------------------------------------------- C10
\* C10: no accumulated signal and no returned thread has a relevance_score
\* below 20.
C10_RelevanceFloor ==
    /\ \A i \in DOMAIN all_signals :
         "relevance_score" \in DOMAIN all_signals[i]
            => all_signals[i].relevance_score >= RELEVANCE_FLOOR
    /\ pc = "done" =>
         \A i \in DOMAIN result.threads :
            "relevance_score" \in DOMAIN result.threads[i]
               => result.threads[i].relevance_score >= RELEVANCE_FLOOR

\* ---------------------------------------------------------------- C11
\* every entry of the collection that carries a relevance_score has it in 0..100
ScoresInRange(signals) ==
    \A i \in DOMAIN signals :
        "relevance_score" \in DOMAIN signals[i]
            => signals[i].relevance_score \in 0..100

\* C11: every signal the engine keeps has its relevance_score in 0..100: in
\* the accumulated signals, in the synthesis input and in the returned thread
\* list alike.
C11_ScoreWithinRange ==
    /\ ScoresInRange(all_signals)
    /\ ScoresInRange(synth_input)
    /\ pc = "done" => ScoresInRange(result.threads)

\* ---------------------------------------------------------------- C12
FactualKeys == {"title", "url", "subreddit", "score", "num_comments"}

\* the threads the analyzer was given for the query: those Reddit holds for it
GivenThreads(query_str) ==
    {n \in DOMAIN ThreadIds : RawThread(n) \in Range(SearchReddit(query_str))}

\* The entry's factual fields are those of the raw thread of its thread_id
\* among the threads analyzed for its source query, and the defaults ("" and
\* 0) when there is no such thread.
FactsFromOriginal(s) ==
    /\ FactualKeys \cup {"source_query"} \subseteq DOMAIN s
    /\ LET given == {n \in GivenThreads(s.source_query) :
                        "thread_id" \in DOMAIN s /\ ThreadIds[n] = s.thread_id}
       IN  IF given = {}
           THEN /\ s.title = "" /\ s.url = "" /\ s.subreddit = ""
                /\ s.score = 0 /\ s.num_comments = 0
           ELSE \A n \in given : \A k \in FactualKeys : s[k] = RawThread(n)[k]

\* the step is an analysis that added entries
AnalysisAdded == pc = "analyze" /\ Len(all_signals') > Len(all_signals)

\* C12: in every entry the analyzer returns, title, url, subreddit, score and
\* num_comments are those of the original raw thread with that id, and
\* source_query is the query being analyzed, whatever values the model's
\* answer carries under those keys.
C12_FactsFromOriginalThread ==
    /\ [](\A i \in DOMAIN all_signals : FactsFromOriginal(all_signals[i]))
    /\ [][AnalysisAdded =>
            (\A i \in (Len(all_signals) + 1)..Len(all_signals') :
                all_signals'[i].source_query = QueryStr(queries[qi]))]_vars

\* The model answered with facts of its own, for a searched thread and for a
\* thread that was never searched, and both entries were kept.
C12_Witness ==
    /\ pc = "done"
    /\ \E i, j \in DOMAIN accumulated :
         /\ Get(accumulated[i], "insight", "") = "unknown type"
         /\ Get(accumulated[i], "thread_id", "") \in Range(ThreadIds)
         /\ Get(accumulated[j], "insight", "") = "invented"
         /\ Get(accumulated[j], "thread_id", "") \notin Range(ThreadIds)

GapTypes(cov) == {cov.gaps[i].signal_type : i \in DOMAIN cov.gaps}

\* C14: appending one signal of category X raises the count of X by exactly
\* 1 and leaves every other count as it was; the gaps list never gets
\* longer, X leaves it exactly when its count reaches the minimum, and no
\* other category enters or leaves it.
C14_GapMonotonicity ==
    [][pc = "reevaluated" =>
         LET X == Get(Last(all_signals'), "signal_type", "irrelevant")
         IN  /\ \A t \in Categories :
                  coverage'.counts[t] = coverage.counts[t] + (IF t = X THEN 1 ELSE 0)
             /\ Len(coverage'.gaps) <= Len(coverage.gaps)
             /\ GapTypes(coverage') =
                  GapTypes(coverage) \
                    {t \in {X} \cap Categories : coverage'.counts[t] = MIN_SIGNALS_PER_TYPE}
             /\ \A t \in Categories \ {X} :
                  t \in GapTypes(coverage') <=> t \in GapTypes(coverage)]_vars

\* The second demand signal was appended and demand left the gaps list.
C14_Witness ==
    /\ pc = "evaluated"
    /\ Get(Last(all_signals), "signal_type", "") = "demand"
    /\ coverage.counts["demand"] = MIN_SIGNALS_PER_TYPE
    /\ GapTypes(coverage) = Categories \ {"demand"}

\* ---------------------------------------------------------------- C15
\* C15: counts has exactly the four categories, each the number of signals
\* with that signal_type (irrelevant, unrecognized and untyped signals are
\* counted nowhere); gaps has one entry for exactly the categories counted
\* below 2; has_gaps is true if and only if gaps is not empty.
C15_CoverageCounts ==
    /\ DOMAIN coverage.counts = Categories
    /\ \A t \in Categories :
         coverage.counts[t] = Cardinality(OfType(all_signals, t))
    /\ GapTypes(coverage) = {t \in Categories : Cardinality(OfType(all_signals, t)) < 2}
    /\ Len(coverage.gaps) = Cardinality(GapTypes(coverage))
    /\ \A i \in DOMAIN coverage.gaps :
         coverage.gaps[i].found = Cardinality(OfType(all_signals, coverage.gaps[i].signal_type))
    /\ coverage.has_gaps <=> coverage.gaps # <<>>

\* Two demand signals and a signal without a type: demand is covered, the
\* other three categories are gaps, the untyped signal is counted nowhere.
C15_Witness ==
    /\ Len(all_signals) = 3
    /\ \E i \in DOMAIN all_signals : "signal_type" \notin DOMAIN all_signals[i]
    /\ coverage.counts["demand"] = 2
    /\ Len(coverage.gaps) = 3

\* ---------------------------------------------------------------- C17
\* the text holds no JSON document at all
NoDocument(content) ==
    content.kind = "str" /\ \A i \in DOMAIN content.val : content.val[i].kind # "doc"

\* C17: safe_parse_json never raises, whatever call_openai handed back (a
\* text or no content), and a text that holds no JSON document (malformed or
\* empty) gives the empty list.
C17_NormalizerNeverRaises ==
    pc = "normalized" =>
        /\ parsed.kind # "raised"
        /\ NoDocument(raw) => parsed = JList(<<>>)

\* ---------------------------------------------------------------- C18
WrapperKeyOrder == <<"queries", "results", "threads", "signals", "data">>

\* the text is one JSON object, newlines aside
IsObjectText(content) ==
    /\ content.kind = "str"
    /\ Cardinality({i \in DOMAIN content.val : content.val[i] # Newline}) = 1
    /\ \A i \in DOMAIN content.val :
         content.val[i] # Newline =>
            content.val[i].kind = "doc" /\ content.val[i].json.kind = "dict"

ObjectOf(content) ==
    content.val[CHOOSE i \in DOMAIN content.val : content.val[i] # Newline].json

\* the positions, in the wrapper key order, of the keys the object holds with a list value
ListWrappers(obj) ==
    {i \in DOMAIN WrapperKeyOrder :
        /\ WrapperKeyOrder[i] \in DOMAIN obj.val
        /\ obj.val[WrapperKeyOrder[i]].kind = "list"}

\* C18 as stated: an object is replaced by its inner list if and only if it
\* holds exactly one wrapper key with a list value; in every other case, more
\* than one such key included, the object is returned unchanged.
C18_AsStated ==
    (pc = "normalized" /\ IsObjectText(raw)) =>
        LET obj == ObjectOf(raw)
        IN  IF Cardinality(ListWrappers(obj)) = 1
            THEN \A i \in ListWrappers(obj) : parsed = obj.val[WrapperKeyOrder[i]]
            ELSE parsed = obj

\* C18 amended: an object is replaced by an inner list if and only if it
\* holds at least one wrapper key with a list value, and the list returned is
\* that of the first such key in the order queries, results, threads,
\* signals, data; an object without such a key is returned unchanged.
C18_FirstWrapperUnwrapped ==
    (pc = "normalized" /\ IsObjectText(raw)) =>
        LET obj == ObjectOf(raw)
            hit == ListWrappers(obj)
        IN  IF hit # {}
            THEN parsed = obj.val[WrapperKeyOrder[CHOOSE i \in hit : \A j \in hit : i <= j]]
            ELSE parsed = obj

\* An object with the two wrapper keys queries and data, both lists, was
\* normalized to the list under queries.
C18_Witness ==
    /\ pc = "normalized"
    /\ IsObjectText(raw)
    /\ Cardinality(ListWrappers(ObjectOf(raw))) = 2
    /\ parsed = JList(<<1, 2, 3>>)

\* ---------------------------------------------------------------- C16

\* C16: the progress observer is advisory.  Whatever the observer does, a run
\* never waits for it, and a run ends with an exception only because a
\* collaborator call failed: the observer can neither block nor abort a run.
C16_ObserverIsAdvisory ==
    /\ pc # "blocked"
    /\ pc = "raised" => calls # <<>> /\ Last(calls).failed

\* ---------------------------------------------------------------- C19

\* C19: what a text-generation call returns never aborts a run.  A run ends
\* with an exception only when the client itself raised; an answer of the
\* wrong shape, a list of non-objects included, is handled inside the stage.
C19_WrongShapeNeverAborts ==
    pc = "raised" => Last(calls).error = "APIError"

\* ---------------------------------------------------------------- C20

RequestsInFlight == {i \in DOMAIN requests : InFlight(requests[i])}

PermitHolders == {i \in DOMAIN requests : requests[i].permit}

\* C20: at most 5 upstream requests are in flight at any moment, and every
\* GET, the retry after a 429 and the comment fetch included, is in flight
\* only while its coroutine holds a permit of the one gate of size 5.
C20_AtMostFiveInFlight ==
    /\ Cardinality(RequestsInFlight) <= GATE_SIZE
    /\ RequestsInFlight \subseteq PermitHolders
    /\ sem.val + Cardinality(PermitHolders) = GATE_SIZE
    /\ sem.val >= 0

\* The gate is full with a retried search and a comment fetch among the
\* requests in flight, and another fetch is waiting for a permit.
C20_Witness ==
    /\ Cardinality(RequestsInFlight) = GATE_SIZE
    /\ \E i \in RequestsInFlight : requests[i].at = "retry"
    /\ \E i \in RequestsInFlight : requests[i].kind = "comments"
    /\ \E i \in DOMAIN requests : requests[i].at = "called"
    /\ \E i \in DOMAIN requests : requests[i].at = "done"

\* ---------------------------------------------------------------- C25
IsAnalyzeCall(call) == call.op = "analyze"

\* the query strings the analyzer was called for, in call order
AnalyzedQueries ==
    LET analyses == SelectSeq(calls, IsAnalyzeCall)
    IN  [i \in DOMAIN analyses |-> analyses[i].arg]

\* the loop over the round's queries is at one of them
AtQuery == pc = "analyze" /\ qi \in DOMAIN queries

\* the queries-used log after the loop has handled the query it is at
LogAfterQuery ==
    LET query_str == QueryStr(queries[qi])
    IN  IF Get(search_results, query_str, <<>>) # <<>>
        THEN Append(all_queries_used, query_str)
        ELSE all_queries_used

\* C25: within a round the queries are handled in the order they were
\* returned, one after the other, and the queries-used log grows by exactly
\* the string of each query whose search result holds a thread: it is logged
\* whether or not its analysis succeeds or yields a signal, once per
\* occurrence, and nothing else ever changes the log, which is returned as
\* queries_used.
C25_QueriesUsedInOrder ==
    /\ [][AtQuery =>
            (/\ all_queries_used' = LogAfterQuery
             /\ qi' = qi + 1 \/ pc' = "raised"
             /\ pc' = "analyze" => queries' = queries /\ search_results' = search_results)]_vars
    /\ [][~AtQuery => all_queries_used' = all_queries_used]_vars
    /\ [](all_queries_used = AnalyzedQueries)
    /\ [](pc = "done" => result.queries_used = all_queries_used)

\* A run that logged the same string in two rounds although no analysis of
\* it yielded a signal.
C25_Witness ==
    /\ pc = "done"
    /\ \E i, j \in DOMAIN result.queries_used :
         /\ i < j
         /\ result.queries_used[i] = result.queries_used[j]
         /\ \E a, b \in CallsOf("analyze") : calls[a].it < calls[b].it
         /\ \A k \in DOMAIN accumulated :
              accumulated[k].source_query # result.queries_used[i]

\* ---------------------------------------------------------------- C26
\* the signal has no thread_id, or an empty one
Blank(s) == Get(s, "thread_id", "") = ""

\* every signal of the collection has a thread_id of its own
IdentifiedOnce(signals) ==
    /\ \A i \in DOMAIN signals : ~Blank(signals[i])
    /\ \A i, j \in DOMAIN signals :
         i # j => signals[i].thread_id # signals[j].thread_id

\* the accumulated signals of a category that open a thread_id
FirstIdentified(t) ==
    {i \in OfType(accumulated, t) :
        /\ ~Blank(accumulated[i])
        /\ \A j \in 1..(i - 1) :
             Get(accumulated[j], "thread_id", "") # accumulated[i].thread_id}

\* C26: after deduplication every signal has a non-empty thread_id that no
\* other signal shares, in the synthesizer's input, in the returned threads
\* and in the final coverage counts; a signal without thread_id is in none of
\* them, although the coverage evaluated inside the loop counted it.
C26_BlankIdsDropped ==
    /\ pc \in {"return", "done"} =>
         /\ IdentifiedOnce(all_signals)
         /\ IdentifiedOnce(synth_input)
         /\ \A t \in Categories :
              coverage.counts[t] = Cardinality(OfType(accumulated, t))
    /\ pc = "done" =>
         /\ IdentifiedOnce(result.threads)
         /\ \A t \in Categories :
              result.coverage.counts[t] = Cardinality(FirstIdentified(t))

\* A signal with an empty thread_id and one with none were accumulated and
\* counted in the loop, and the final counts of their categories are lower.
C26_Witness ==
    /\ pc = "done"
    /\ \E i, j \in DOMAIN accumulated :
         /\ "thread_id" \in DOMAIN accumulated[i] /\ accumulated[i].thread_id = ""
         /\ "thread_id" \notin DOMAIN accumulated[j]
         /\ \E t \in Categories :
              /\ i \in OfType(accumulated, t)
              /\ coverage.counts[t] > result.coverage.counts[t]
         /\ \E t \in Categories :
              /\ j \in OfType(accumulated, t)
              /\ coverage.counts[t] > result.coverage.counts[t]
    /\ result.threads # <<>>

\* ---------------------------------------------------------------- C27
\* the step calls the query refiner
RefinerInvoked == pc = "refine" /\ Len(calls') > Len(calls)

\* C27: the refiner is called only with a coverage that has gaps, which is
\* the coverage evaluated at the end of the previous iteration, and no run
\* leaves the loop at the start of an iteration because coverage is complete.
C27_RefinerOnlyWithGaps ==
    /\ [][RefinerInvoked =>
            (/\ coverage'.has_gaps
             /\ coverage'.gaps # <<>>
             /\ coverage' = coverage
             /\ Last(calls').op = "refine")]_vars
    /\ [](exit # "covered_start")
    /\ [](pc = "refine" => coverage.has_gaps /\ coverage = evaluate_coverage(all_signals))

\* The refiner was called in the second and in the third iteration, with
\* signals accumulated before.
C27_Witness ==
    /\ \E a, b \in CallsOf("refine") : calls[a].it = 2 /\ calls[b].it = 3
    /\ accumulated # <<>>
    /\ pc = "done"

\* ---------------------------------------------------------------- C28
\* C28 as stated: a run that left the loop because a coverage evaluated in
\* the loop had no gaps returns a final coverage without gaps, and a final
\* coverage with gaps is returned only by runs that ended at the iteration
\* cap or on an empty query yield.
C28_AsStated ==
    pc = "done" =>
        /\ exit = "covered" => ~result.coverage.has_gaps
        /\ result.coverage.has_gaps => exit \in {"cap", "no_queries"}

\* C28 amended: a run left the loop on coverage exactly when the coverage
\* evaluated in the loop, over the accumulated signals, has no gaps.  The
\* final coverage counts no category higher than that one did, equals it
\* when deduplication dropped nothing, and reports gaps after a coverage
\* exit only when deduplication dropped a signal.
C28_CoveredBeforeDedup ==
    pc = "done" =>
        /\ exit = "covered" <=> ~coverage.has_gaps
        /\ \A t \in Categories : result.coverage.counts[t] <= coverage.counts[t]
        /\ Len(result.threads) = Len(accumulated) => result.coverage = coverage
        /\ exit = "covered" /\ result.coverage.has_gaps =>
             Len(result.threads) < Len(accumulated)

\* The loop ended on coverage in the first iteration, and the final coverage
\* reports a gap because a thread counted twice is returned once.
C28_Witness ==
    /\ pc = "done"
    /\ exit = "covered"
    /\ ~coverage.has_gaps
    /\ result.coverage.has_gaps
    /\ \E i, j \in DOMAIN accumulated :
         /\ i < j
         /\ ~Blank(accumulated[i])
         /\ Get(accumulated[j], "thread_id", "") = accumulated[i].thread_id

\* ---------------------------------------------------------------- C29
\* the rounds in which the queries were searched and analyzed
PerformedRounds == Cardinality(CallsOf("search"))

\* C29 as stated: the returned iterations is between 1 and MAX_ITERATIONS and
\* is the number of rounds in which queries were searched and analyzed; an
\* iteration stopped for want of queries is not counted.
C29_AsStated ==
    pc = "done" =>
        /\ result.iterations \in 1..MAX_ITERATIONS
        /\ result.iterations = PerformedRounds

\* C29 amended: the returned iterations is between 1 and MAX_ITERATIONS and
\* is the number of iterations started, each of which called the generator
\* or the refiner: the rounds searched and analyzed, and one more when the
\* loop stopped because no queries were produced.
C29_IterationsStarted ==
    pc = "done" =>
        /\ result.iterations \in 1..MAX_ITERATIONS
        /\ result.iterations = iteration
        /\ result.iterations = Cardinality(QueryCalls)
        /\ PerformedRounds = Len(round_ends)
        /\ result.iterations =
             PerformedRounds + (IF exit = "no_queries" THEN 1 ELSE 0)

\* The refiner produced no queries in the second iteration: one round was
\* searched and analyzed, and iterations is 2.
C29_Witness ==
    /\ pc = "done"
    /\ exit = "no_queries"
    /\ PerformedRounds = 1
    /\ result.iterations = 2

\* ---------------------------------------------------------------- C30
\* the signal's thread_id is that of a thread the analyzer was given for the
\* signal's query
RefersToGivenThread(s) ==
    /\ "thread_id" \in DOMAIN s
    /\ \E n \in GivenThreads(s.source_query) : ThreadIds[n] = s.thread_id

\* C30: every signal that is accumulated, and every thread that is returned,
\* carries the id of a raw thread that search returned for its query: an
\* entry with an invented or missing thread_id produces no signal.
C30_OnlySearchedThreads ==
    /\ \A i \in DOMAIN all_signals : RefersToGivenThread(all_signals[i])
    /\ pc = "done" => \A i \in DOMAIN result.threads : RefersToGivenThread(result.threads[i])

\* ---------------------------------------------------------------- C21
\* the sub-request has returned
Returned(task) == task.at = "done"

\* C21: a search sub-request answered 429 waits the indicated delay and
\* retries exactly once.  No sub-request issues more than 2 upstream requests;
\* one whose first answer was 429 has issued a second; a 200 on the retry
\* gives the threads of the retry's response, and any other answer to the
\* retry, a second 429 included, gives the empty list and no exception.
C21_RetriesExactlyOnce ==
    \A i \in DOMAIN requests :
        LET task == requests[i]
        IN  /\ Len(task.statuses) <= 2
            /\ task.at # "raised"
            /\ task.at \in {"sleep", "retry"} => task.statuses = <<429>>
            /\ Returned(task) /\ task.statuses[1] = 429 =>
                 /\ Len(task.statuses) = 2
                 /\ Len(task.slept) = 1
                 /\ task.statuses[2] = 200 =>
                      task.threads = ThreadsOf(Children(task.n, 2), SearchedQuery)
                 /\ task.statuses[2] # 200 => task.threads = <<>>

\* ---------------------------------------------------------------- C22
\* the sub-requests whose last answer was a 200
Succeeded == {i \in DOMAIN requests : Returned(requests[i]) /\ Last(requests[i].statuses) = 200}

\* the ids in the listing the sub-request received last
ListedIds(i) ==
    LET children == Children(requests[i].n, Len(requests[i].statuses))
    IN  {children[k].data.id : k \in {k \in DOMAIN children : HasId(children[k])}}

\* C22: upstream degradation stays within its sub-request.  A sub-request
\* that timed out, raised or got a non-200 contributes no thread and raises
\* nothing, search_reddit does not raise, and what it returns holds, once
\* each, exactly the threads listed to the sub-requests that succeeded: the
\* empty list when none did.
C22_DegradationIsolated ==
    /\ pc # "raised"
    /\ \A i \in DOMAIN requests :
         /\ requests[i].at # "raised"
         /\ Returned(requests[i]) /\ i \notin Succeeded => requests[i].threads = <<>>
    /\ pc = "returned" =>
         /\ {all_threads[k].id : k \in DOMAIN all_threads} = UNION {ListedIds(i) : i \in Succeeded}
         /\ \A j, k \in DOMAIN all_threads : j # k => all_threads[j].id # all_threads[k].id
         /\ \A k \in DOMAIN all_threads :
              /\ all_threads[k].source_query = SearchedQuery
              /\ \E i \in Succeeded : all_threads[k] \in Range(requests[i].threads)
         /\ Succeeded = {} => all_threads = <<>>

\* Of four sub-requests one timed out, one got a 500, one succeeded at once
\* and one on its retry, and search_reddit returned the threads of these two.
C22_Witness ==
    /\ pc = "returned"
    /\ \E i, j, k, l \in DOMAIN requests :
         /\ requests[i].statuses = <<0>>
         /\ requests[j].statuses = <<500>>
         /\ requests[k].statuses = <<200>>
         /\ requests[l].statuses = <<429, 200>>
         /\ Len(all_threads) = Cardinality(ListedIds(k) \cup ListedIds(l))
         /\ Len(all_threads) < Len(requests[k].threads) + Len(requests[l].threads)

\* ---------------------------------------------------------------- C23
\* a request being answered
Answered == pc = "responded"

\* C23: when the engine run raises, POST /analyze answers with the error
\* status 500, which carries a detail and no scores, and not with a 200
\* result built from the default Reddit scores.
C23_EngineErrorIs500 ==
    (Answered /\ engine_run = "raised") =>
        /\ reply.status_code = 500
        /\ "detail" \in DOMAIN reply.content
        /\ "scores" \notin DOMAIN reply.content

\* ---------------------------------------------------------------- C24
\* C24: the competition risk of n highly similar repositories is, in
\* hundredths, min(n, 100): linear in n, and 1.0 from n = 100 on.
C24_SaturatesAtHundred ==
    (Answered /\ reply.status_code = 200) =>
        reply.content.github.competition_risk
            = Min(reply.content.github.high_sim_count, 100)

====
